---- MODULE Spec2Model ----
(***************************************************************************)
(* Pixel Runtime (angelotadres/pixel_runtime): the CPU pixel surface       *)
(* (surface.cpp, color.h), the assertion policy (error_handling.h) and the *)
(* application lifecycle loop (app.cpp).                                   *)
(***************************************************************************)
EXTENDS Integers, Sequences, FiniteSets, TLC

(***************************************************************************)
(* Bounds of the model.                                                    *)
(***************************************************************************)
\* Largest surface dimension and largest coordinate/offset that is tried;
\* dimensions, coordinates and offsets range over -1..MaxDim.
MaxDim == 2
\* Number of member calls tried on the Surface objects after their construction.
MaxOps == 2
\* Number of iterations of the running loop that are followed.
MaxFrames == 2
\* Number of calls user code makes to the App object over one run.
MaxUserOps == 2
\* Number of object names the OpenGL context hands out.
MaxNames == 16

Dims == -1..MaxDim
Coords == -1..MaxDim

(***************************************************************************)
(* color.h : struct Color, one uint32_t value 0xAARRGGBB. A 32-bit word is *)
(* written as its four bytes, most significant first: <<AA, RR, GG, BB>>.  *)
(***************************************************************************)
Byte == 256
UInt8(v) == v % Byte

\* Color(uint8_t red, uint8_t green, uint8_t blue, uint8_t alpha):
\* value = (alpha << 24) | (red << 16) | (green << 8) | blue.
ColorRGBA(red, green, blue, alpha) == <<UInt8(alpha), UInt8(red), UInt8(green), UInt8(blue)>>

ColorA(c) == c[1]
ColorR(c) == c[2]
ColorG(c) == c[3]
ColorB(c) == c[4]
toUInt32(c) == c

\* The expression Color(v) for a uint32_t v. Color has a single constructor,
\* Color(uint8_t red = 0, uint8_t green = 0, uint8_t blue = 0, uint8_t alpha = 255):
\* v is converted to uint8_t (its low byte) and becomes the red channel.
ColorFromUInt32(v) == ColorRGBA(v[4], 0, 0, 255)

ColorBlack == ColorRGBA(0, 0, 0, 255)
ColorRed == ColorRGBA(255, 0, 0, 255)
\* The colors the operations are tried with: the default color, a predefined
\* opaque color and one with four different channels and partial alpha.
TestColors == {ColorBlack, ColorRed, ColorRGBA(10, 20, 30, 40)}
NoColor == <<>>

(***************************************************************************)
(* std::vector<uint32_t>, as a length, the value the vector was filled     *)
(* with and the elements that differ from it (index -> value). The form is *)
(* canonical: two vectors are equal iff their records are equal.           *)
(***************************************************************************)
EmptyMap == [i \in {} |-> NoColor]
VecFill(n, v) == [len |-> n, fill |-> IF n = 0 THEN NoColor ELSE v, over |-> EmptyMap]
VecAt(p, i) == IF i \in DOMAIN p.over THEN p.over[i] ELSE p.fill
VecSet(p, i, v) ==
    IF v = p.fill
    THEN [p EXCEPT !.over = [j \in (DOMAIN p.over) \ {i} |-> p.over[j]]]
    ELSE [p EXCEPT !.over = [j \in (DOMAIN p.over) \cup {i} |->
                                 IF j = i THEN v ELSE p.over[j]]]
VecEmpty == VecFill(0, NoColor)

(***************************************************************************)
(* error_handling.h : a failed PXR_ASSERT reports the message and ends the *)
(* process; an exception leaves the operation that raised it.              *)
(***************************************************************************)
\* inline ErrorCallback errorCallback = nullptr: whether a callback is set.
VARIABLE errorCallback

NoFailure == [kind |-> "none", msg |-> "", sink |-> "none"]
\* handleReleaseError / handleDebugError: the message with its prefix goes to
\* the callback if one is set, to std::cerr otherwise.
AssertFailure(m) ==
    [kind |-> "assert", msg |-> m, sink |-> IF errorCallback THEN "callback" ELSE "stderr"]
\* An exception leaves run(); the catch clause of PXR_MAIN writes what() to
\* std::cerr.
Exception(m) == [kind |-> "exception", msg |-> m, sink |-> "stderr"]
\* Something thrown that is not a std::exception passes the catch clause of
\* PXR_MAIN, which names const std::exception &: nothing is written and
\* std::terminate() is called.
Uncaught(m) == [kind |-> "terminate", msg |-> m, sink |-> "none"]
\* The behaviour is undefined from here on: anything may have happened.
UndefinedBehaviour(m) == [kind |-> "undefined", msg |-> m, sink |-> "none"]
\* How the process ends after the failure f, in a build with or without DEBUG.
Termination(f, debug) ==
    CASE f.kind = "assert" -> IF debug THEN "std::abort()" ELSE "std::exit(EXIT_FAILURE)"
      [] f.kind = "exception" -> "return EXIT_FAILURE"
      [] f.kind = "terminate" -> "std::terminate()"
      [] OTHER -> "none"

(***************************************************************************)
(* surface.cpp : class Surface {int width; int height; vector pixels}.     *)
(* Each member function is an operator from the object (and its arguments) *)
(* to the outcome: the failure raised, the object afterwards, the value    *)
(* returned.                                                               *)
(***************************************************************************)
NoSurface == [live |-> FALSE, width |-> 0, height |-> 0, pixels |-> VecEmpty]

Outcome(f, s, r) == [failure |-> f, surface |-> s, ret |-> r]

\* Surface::Surface(int width, int height, Color backgroundColor): the member
\* initialisers run first, pixels(width * height, color) among them. The
\* count is converted to size_t, so a negative product asks for more than
\* max_size() elements and std::vector throws std::length_error before the
\* constructor's body, where the assertion is, is entered.
\* The constructor with pixels(width * height): the elements zero, not the color.
SurfaceCtor_ZeroFilled(w, h, backgroundColor) ==
    LET n == w * h IN
    IF n < 0
    THEN Outcome(Exception("std::length_error"), NoSurface, NoColor)
    ELSE IF ~(w > 0 /\ h > 0)
    THEN Outcome(AssertFailure("Surface dimensions must be positive."), NoSurface, NoColor)
    ELSE Outcome(NoFailure,
                 [live |-> TRUE, width |-> w, height |-> h,
                  pixels |-> VecFill(n, <<0, 0, 0, 0>>)],
                 NoColor)

SurfaceCtor(w, h, backgroundColor) ==
    LET n == w * h IN
    IF n < 0
    THEN Outcome(Exception("std::length_error"), NoSurface, NoColor)
    ELSE IF ~(w > 0 /\ h > 0)
    THEN Outcome(AssertFailure("Surface dimensions must be positive."), NoSurface, NoColor)
    ELSE Outcome(NoFailure,
                 [live |-> TRUE, width |-> w, height |-> h,
                  pixels |-> VecFill(n, toUInt32(backgroundColor))],
                 NoColor)

\* isInBounds with the width test off by one.
isInBounds_OffByOne(s, x, y) == x >= 0 /\ y >= 0 /\ x <= s.width /\ y < s.height

isInBounds(s, x, y) == x >= 0 /\ y >= 0 /\ x < s.width /\ y < s.height

PixelIndex(s, x, y) == y * s.width + x

\* Surface::clear: std::ranges::fill(pixels, color.toUInt32()).
SurfaceClear(s, color) ==
    Outcome(NoFailure, [s EXCEPT !.pixels = VecFill(s.pixels.len, toUInt32(color))], NoColor)

SurfaceSetPixel(s, x, y, color) ==
    IF ~isInBounds(s, x, y)
    THEN Outcome(AssertFailure("setPixel() out of bounds."), s, NoColor)
    ELSE Outcome(NoFailure,
                 [s EXCEPT !.pixels = VecSet(s.pixels, PixelIndex(s, x, y), toUInt32(color))],
                 NoColor)

SurfaceGetPixel(s, x, y) ==
    IF ~isInBounds(s, x, y)
    THEN Outcome(AssertFailure("getPixel() out of bounds."), s, NoColor)
    ELSE Outcome(NoFailure, s, ColorFromUInt32(VecAt(s.pixels, PixelIndex(s, x, y))))

\* The move constructor without other.width = 0; other.height = 0.
SurfaceMoveCtor_KeepsSize(other) ==
    [to |-> [live |-> TRUE, width |-> other.width, height |-> other.height,
             pixels |-> other.pixels],
     from |-> [other EXCEPT !.pixels = VecEmpty]]
\* Surface::Surface(Surface &&other): the object made and other afterwards.
\* A std::vector that was moved from is empty.
SurfaceMoveCtor(other) ==
    [to |-> [live |-> TRUE, width |-> other.width, height |-> other.height,
             pixels |-> other.pixels],
     from |-> [other EXCEPT !.width = 0, !.height = 0, !.pixels = VecEmpty]]
\* Surface::operator=(Surface &&other); same says that other is *this.
SurfaceMoveAssign(this, other, same) ==
    IF same THEN [to |-> this, from |-> this] ELSE SurfaceMoveCtor(other)

\* Surface::blitTo: the two loops, y outer and x inner, as one loop over
\* k = y * width + x. alias says that target is the source object itself, so
\* that every read sees the writes made so far.
RECURSIVE BlitLoop(_, _, _, _, _, _)
BlitLoop(source, target, alias, dstX, dstY, k) ==
    IF k >= source.width * source.height
    THEN Outcome(NoFailure, target, NoColor)
    ELSE LET x == k % source.width
             y == k \div source.width
             tx == dstX + x
             ty == dstY + y
             from == IF alias THEN target ELSE source
         IN IF isInBounds(target, tx, ty)
            THEN LET got == SurfaceGetPixel(from, x, y)
                     put == IF got.failure = NoFailure
                            THEN SurfaceSetPixel(target, tx, ty, got.ret)
                            ELSE got
                 IN IF put.failure = NoFailure
                    THEN BlitLoop(source, put.surface, alias, dstX, dstY, k + 1)
                    ELSE Outcome(put.failure, put.surface, NoColor)
            ELSE BlitLoop(source, target, alias, dstX, dstY, k + 1)

SurfaceBlitTo(source, target, dstX, dstY) == BlitLoop(source, target, FALSE, dstX, dstY, 0)

(***************************************************************************)
(* window.cpp : class Window, as far as App::run drives it. shouldClose is *)
(* the close flag of the native window, raised by event processing.        *)
(***************************************************************************)
\* Window::Window() = default, with the member initialisers of window.h.
WindowNew ==
    [exists |-> TRUE, handle |-> FALSE, width |-> 640, height |-> 480,
     title |-> "Pixel Runtime", vsyncEnabled |-> TRUE, shouldClose |-> FALSE,
     terminated |-> FALSE]
\* The empty std::unique_ptr<Window>.
NoWindow == [WindowNew EXCEPT !.exists = FALSE]

\* Window::create; env names the step of the native library that fails, if any.
WindowCreateFailures ==
    {"Failed to initialize GLFW", "Failed to create GLFW window", "Failed to initialize GLAD"}
\* Window::create on a library that makes a window of any size asked for.
WindowCreate_AnySize(w, width_, height_, title_, vsync, env) ==
    LET made == [w EXCEPT !.width = width_, !.height = height_, !.title = title_,
                          !.vsyncEnabled = vsync]
    IN IF env = "Failed to initialize GLFW"
       THEN [failure |-> AssertFailure(env), window |-> w]
       ELSE IF env = "Failed to create GLFW window"
       THEN [failure |-> AssertFailure("Failed to create GLFW window"), window |-> made]
       ELSE IF env = "Failed to initialize GLAD"
       THEN [failure |-> AssertFailure(env), window |-> [made EXCEPT !.handle = TRUE]]
       ELSE [failure |-> NoFailure, window |-> [made EXCEPT !.handle = TRUE]]
\* glfwCreateWindow returns no window for a width or height that is not positive.
WindowCreate(w, width_, height_, title_, vsync, env) ==
    LET made == [w EXCEPT !.width = width_, !.height = height_, !.title = title_,
                          !.vsyncEnabled = vsync]
    IN IF env = "Failed to initialize GLFW"
       THEN [failure |-> AssertFailure(env), window |-> w]
       ELSE IF env = "Failed to create GLFW window" \/ width_ <= 0 \/ height_ <= 0
       THEN [failure |-> AssertFailure("Failed to create GLFW window"), window |-> made]
       ELSE IF env = "Failed to initialize GLAD"
       THEN [failure |-> AssertFailure(env), window |-> [made EXCEPT !.handle = TRUE]]
       ELSE [failure |-> NoFailure, window |-> [made EXCEPT !.handle = TRUE]]

\* Window::destroy: glfwDestroyWindow(handle) if there is one, then glfwTerminate().
WindowDestroy(w) == [w EXCEPT !.handle = FALSE, !.terminated = TRUE]

(***************************************************************************)
(* input.cpp, input.h : class Input. A cursor coordinate (a double in the  *)
(* code) is a whole number of half pixels.                                 *)
(***************************************************************************)
\* a / b of two ints, b not 0: the quotient truncated towards zero.
CDiv(a, b) ==
    LET q == (IF a < 0 THEN -a ELSE a) \div (IF b < 0 THEN -b ELSE b)
    IN IF (a < 0) = (b < 0) THEN q ELSE -q
\* static_cast<int>(x) of a double x given in half pixels.
ToInt(halves) == CDiv(halves, 2)

\* The member initialisers of input.h; cursor is what glfwGetCursorPos
\* returned to the last poll().
InputNew == [exists |-> TRUE, window |-> FALSE, cursor |-> <<0, 0>>, mouseX |-> 0, mouseY |-> 0]
\* The empty std::unique_ptr<Input>.
NoInput == [InputNew EXCEPT !.exists = FALSE]
\* Input::initialize
InputInitialize(i, handle) ==
    IF handle
    THEN [failure |-> NoFailure, input |-> [i EXCEPT !.window = handle]]
    ELSE [failure |-> AssertFailure("GLFW window is null"), input |-> i]
\* Input::poll, the cursor being at cursor.
InputPollTo(i, cursor) ==
    [i EXCEPT !.cursor = cursor, !.mouseX = ToInt(cursor[1]), !.mouseY = ToInt(cursor[2])]

(***************************************************************************)
(* The OpenGL context, as far as graphics.cpp uses it: the live objects by *)
(* name and what the default framebuffer shows.                            *)
(***************************************************************************)
\* A vector of n elements whose values are unspecified (storage allocated
\* with a null data pointer).
Unspecified(n) == VecFill(n, NoColor)
NoImage == VecEmpty

GLObject(kind, w, h, size, data) ==
    [kind |-> kind, width |-> w, height |-> h, size |-> size, data |-> data]
NoObjects == [n \in {} |-> GLObject("none", 0, 0, 0, VecEmpty)]

\* A new context: no objects, nothing drawn. next is the next unused name,
\* stale counts the deletions of a name that is not zero and not live.
GLNew == [next |-> 1, objects |-> NoObjects, stale |-> 0, screen |-> NoImage]

IsLive(c, name) == name \in DOMAIN c.objects

\* glGen* / glCreate*: an unused name, and the object it names. (The context
\* is bound as the one element of a set so that it is evaluated once.)
GLGen(context, obj) ==
    CHOOSE made \in
        {[c EXCEPT !.next = c.next + 1,
                   !.objects = [n \in DOMAIN c.objects \cup {c.next} |->
                                   IF n = c.next THEN obj ELSE c.objects[n]]] :
            c \in {context}} : TRUE

\* glDelete*: the name 0 is silently ignored.
GLDelete(context, name) ==
    CHOOSE left \in
        {IF name = 0
         THEN c
         ELSE IF IsLive(c, name)
         THEN [c EXCEPT !.objects = [n \in DOMAIN c.objects \ {name} |-> c.objects[n]]]
         ELSE [c EXCEPT !.stale = c.stale + 1] :
            c \in {context}} : TRUE

\* The data store of a live object replaced.
GLStore(c, name, data) == [c EXCEPT !.objects[name].data = data]

(***************************************************************************)
(* graphics.cpp, graphics.h : class Graphics {texture, pbo[2], vao, vbo,   *)
(* shaderProgram, currentPBO, width, height}. Each member function is an   *)
(* operator from the object, the context (and the arguments) to the        *)
(* failure raised, the object afterwards and the context afterwards.       *)
(***************************************************************************)
\* Graphics::Graphics() = default, with the member initialisers of graphics.h.
\* pbo[i] of the code is pbo[i + 1] here.
GraphicsNew ==
    [exists |-> TRUE, texture |-> 0, pbo |-> <<0, 0>>, vao |-> 0, vbo |-> 0,
     shaderProgram |-> 0, currentPBO |-> 0, width |-> 0, height |-> 0]
\* The empty std::unique_ptr<Graphics>.
NoGraphics == [GraphicsNew EXCEPT !.exists = FALSE]

GOut(f, g, c) == [failure |-> f, graphics |-> g, gl |-> c]

\* Bytes of one pixel of the surface and of one GL_RGBA / GL_UNSIGNED_BYTE texel.
BytesPerPixel == 4
\* sizeof(vertices): four vertices of four floats.
QuadBytes == 64

\* Graphics::createTexture: glTexImage2D(..., w, h, ..., nullptr).
createTexture(g, c, w, h) ==
    GOut(NoFailure, [g EXCEPT !.texture = c.next],
         GLGen(c, GLObject("texture", w, h, w * h * BytesPerPixel, Unspecified(w * h))))

\* createPBOs with buffers of one byte for each pixel.
createPBOs_BytePerPixel(g, c) ==
    LET obj == GLObject("buffer", 0, 0, g.width * g.height, Unspecified(g.width * g.height))
        c1 == GLGen(c, obj)
        c2 == GLGen(c1, obj)
    IN GOut(NoFailure, [g EXCEPT !.pbo = <<c.next, c1.next>>], c2)
\* Graphics::createPBOs: two buffers of width * height * 4 bytes, no data.
createPBOs(g, c) ==
    LET obj == GLObject("buffer", 0, 0, g.width * g.height * BytesPerPixel,
                        Unspecified(g.width * g.height))
        c1 == GLGen(c, obj)
        c2 == GLGen(c1, obj)
    IN GOut(NoFailure, [g EXCEPT !.pbo = <<c.next, c1.next>>], c2)

\* Graphics::createQuad: the vertex array and the vertex buffer of the quad.
createQuad(g, c) ==
    LET c1 == GLGen(c, GLObject("vertexArray", 0, 0, 0, VecEmpty))
        c2 == GLGen(c1, GLObject("buffer", 0, 0, QuadBytes, VecEmpty))
    IN GOut(NoFailure, [g EXCEPT !.vao = c.next, !.vbo = c1.next], c2)

ShaderFailures == {"Shader compilation failed.", "Shader linking failed."}
\* Graphics::createShaders, createShaderProgram and compileShader: the two
\* shader objects, the program, and the deletion of the shader objects once
\* the program is linked. env names the step the driver fails, if any.
createShaders(g, c, env) ==
    LET shader == GLObject("shader", 0, 0, 0, VecEmpty)
        c1 == GLGen(c, shader)
        c2 == GLGen(c1, shader)
        c3 == GLGen(c2, GLObject("program", 0, 0, 0, VecEmpty))
    IN IF env = "Shader compilation failed."
       THEN GOut(AssertFailure(env), g, c1)
       ELSE IF env = "Shader linking failed."
       THEN GOut(AssertFailure(env), g, c3)
       ELSE GOut(NoFailure, [g EXCEPT !.shaderProgram = c2.next],
                 GLDelete(GLDelete(c3, c.next), c1.next))

\* Graphics::initialize
GraphicsInitialize(g, c, surf, env) ==
    LET g0 == [g EXCEPT !.width = surf.width, !.height = surf.height]
        t == createTexture(g0, c, g0.width, g0.height)
        p == createPBOs(t.graphics, t.gl)
        q == createQuad(p.graphics, p.gl)
    IN createShaders(q.graphics, q.gl, env)

\* The step of upload() the driver may fail.
UploadFailures == {"PBO mapping failed."}
\* Values tried for texels that were allocated and never written.
Junk == {<<0, 0, 0, 0>>, toUInt32(ColorRed)}

\* The index without the advance: every upload uses the same buffer.
NextPBO_Stuck(i) == i
\* Line 140: (currentPBO + 1) % 2
NextPBO(i) == (i + 1) % 2

\* The size test on the width alone.
SizeMatches_WidthOnly(g, surf) == surf.width = g.width
\* Line 138: surface.getWidth() == width && surface.getHeight() == height
SizeMatches(g, surf) == surf.width = g.width /\ surf.height = g.height

\* The texture updated from the buffer that this call did not write.
UnpackBuffer_Other(g) == g.pbo[(1 - g.currentPBO) + 1]
\* The buffer bound to GL_PIXEL_UNPACK_BUFFER (line 141) when glTexSubImage2D
\* (line 150) reads, with a null offset, from the bound buffer.
UnpackBuffer(g) == g.pbo[g.currentPBO + 1]

\* Line 146: the number of bytes memcpy copies.
MemcpyBytes(g) == g.width * g.height * BytesPerPixel

\* Graphics::upload. env names the step the driver fails, if any; mapping
\* also fails when no live buffer is bound. memcpy reads MemcpyBytes from the
\* surface's buffer and writes them to the mapped buffer; going past the end
\* of either is undefined.
GraphicsUpload(g, c, surf, env) ==
    IF ~SizeMatches(g, surf)
    THEN GOut(AssertFailure("Surface size mismatch."), g, c)
    ELSE LET g1 == [g EXCEPT !.currentPBO = NextPBO(g.currentPBO)]
             mapped == g1.pbo[g1.currentPBO + 1]
         IN IF env = "PBO mapping failed." \/ ~IsLive(c, mapped)
            THEN GOut(AssertFailure("PBO mapping failed."), g1, c)
            ELSE IF \/ MemcpyBytes(g1) > c.objects[mapped].size
                    \/ MemcpyBytes(g1) > surf.pixels.len * BytesPerPixel
            THEN GOut(UndefinedBehaviour("memcpy"), g1, c)
            ELSE LET c1 == GLStore(c, mapped, surf.pixels)
                     from == UnpackBuffer(g1)
                 IN GOut(NoFailure, g1,
                         IF IsLive(c1, g1.texture) /\ IsLive(c1, from)
                         THEN GLStore(c1, g1.texture, c1.objects[from].data)
                         ELSE c1)

\* The texel GL_RGBA / GL_UNSIGNED_BYTE reads from the four bytes of a packed
\* 0xAARRGGBB word as memcpy laid them out (little-endian: BB GG RR AA): the
\* first byte is red, the second green, the third blue, the fourth alpha.
\* A texel is written <<red, green, blue, alpha>>.
Texel(word) == IF word = NoColor THEN NoColor ELSE <<word[4], word[3], word[2], word[1]>>

\* The row sampled by a vertex shader that passes aTex on as it is.
SampledRow_Unflipped(y, h) == (h - 1) - y
\* The row of the texture shown at row y of the viewport, counted from the
\* top, for a texture of h rows: the quad (createQuad) gives the top edge
\* aTex.y = 1 and the bottom edge aTex.y = 0, and the vertex shader samples
\* at 1.0 - aTex.y.
SampledRow(y, h) == (h - 1) - ((h - 1) - y)
SampledIndex(i, w, h) == SampledRow(i \div w, h) * w + (i % w)

\* The image a draw of the fullscreen quad presents, row 0 at the top, from
\* the data of a w x h texture (nearest sampling, FragColor = the texel).
\* SampledRow is its own inverse, so the elements that differ from the fill
\* are at the SampledIndex of those of the data.
ScreenImage(data, w, h) ==
    [len |-> data.len, fill |-> Texel(data.fill),
     over |-> [i \in {SampledIndex(j, w, h) : j \in DOMAIN data.over} |->
                  Texel(data.over[SampledIndex(i, w, h)])]]

\* render() drawing only for a pixel scale above 1.
GraphicsRender_Scaled(g, c, pixelSize, junk) ==
    IF pixelSize <= 1 \/ ~IsLive(c, g.vao) \/ ~IsLive(c, g.texture)
    THEN GOut(NoFailure, g, c)
    ELSE LET tex == c.objects[g.texture]
             data == IF tex.data.fill = NoColor THEN VecFill(tex.data.len, junk) ELSE tex.data
         IN GOut(NoFailure, g, [c EXCEPT !.screen = ScreenImage(data, tex.width, tex.height)])
\* render() advancing the buffer index as upload() does.
GraphicsRender_Advancing(g, c, pixelSize, junk) ==
    IF ~IsLive(c, g.vao) \/ ~IsLive(c, g.texture)
    THEN GOut(NoFailure, g, c)
    ELSE LET tex == c.objects[g.texture]
             data == IF tex.data.fill = NoColor THEN VecFill(tex.data.len, junk) ELSE tex.data
         IN GOut(NoFailure, [g EXCEPT !.currentPBO = NextPBO(g.currentPBO)],
                 [c EXCEPT !.screen = ScreenImage(data, tex.width, tex.height)])
\* Graphics::render(int): the argument is not used. Nothing is drawn without
\* a vertex array; texels that were never uploaded have unspecified values,
\* junk being what the driver has there.
GraphicsRender(g, c, pixelSize, junk) ==
    IF ~IsLive(c, g.vao) \/ ~IsLive(c, g.texture)
    THEN GOut(NoFailure, g, c)
    ELSE LET tex == c.objects[g.texture]
             data == IF tex.data.fill = NoColor THEN VecFill(tex.data.len, junk) ELSE tex.data
         IN GOut(NoFailure, g, [c EXCEPT !.screen = ScreenImage(data, tex.width, tex.height)])

\* destroy() leaving the handles as they are.
GraphicsDestroy_KeepsHandles(g, c) ==
    LET c1 == IF g.texture # 0 THEN GLDelete(c, g.texture) ELSE c
        c2 == IF g.pbo[1] # 0 THEN GLDelete(GLDelete(c1, g.pbo[1]), g.pbo[2]) ELSE c1
        c3 == IF g.vao # 0 THEN GLDelete(c2, g.vao) ELSE c2
        c4 == IF g.vbo # 0 THEN GLDelete(c3, g.vbo) ELSE c3
        c5 == IF g.shaderProgram # 0 THEN GLDelete(c4, g.shaderProgram) ELSE c4
    IN GOut(NoFailure, g, c5)

\* Graphics::destroy
GraphicsDestroy(g, c) ==
    LET c1 == IF g.texture # 0 THEN GLDelete(c, g.texture) ELSE c
        c2 == IF g.pbo[1] # 0 THEN GLDelete(GLDelete(c1, g.pbo[1]), g.pbo[2]) ELSE c1
        c3 == IF g.vao # 0 THEN GLDelete(c2, g.vao) ELSE c2
        c4 == IF g.vbo # 0 THEN GLDelete(c3, g.vbo) ELSE c3
        c5 == IF g.shaderProgram # 0 THEN GLDelete(c4, g.shaderProgram) ELSE c4
    IN GOut(NoFailure,
            [g EXCEPT !.texture = 0, !.vao = 0, !.vbo = 0, !.shaderProgram = 0,
                      !.pbo = <<0, 0>>],
            c5)

\* resize() without its destroy() call.
GraphicsResize_NoDestroy(g, c, surf, env) ==
    IF surf.width = g.width /\ surf.height = g.height
    THEN GOut(NoFailure, g, c)
    ELSE GraphicsInitialize([g EXCEPT !.width = surf.width, !.height = surf.height],
                            c, surf, env)

\* Graphics::resize
GraphicsResize(g, c, surf, env) ==
    IF surf.width = g.width /\ surf.height = g.height
    THEN GOut(NoFailure, g, c)
    ELSE LET d == GraphicsDestroy(g, c)
         IN GraphicsInitialize([d.graphics EXCEPT !.width = surf.width,
                                                   !.height = surf.height],
                               d.gl, surf, env)

(***************************************************************************)
(* State.                                                                  *)
(***************************************************************************)
VARIABLES
    failure,        \* the failure that ended the process, NoFailure while it runs
    \* user code working on Surface objects of its own
    src, dst,       \* two Surface objects (NoSurface before construction)
    call,           \* the last Surface member call made, with its result
    nops,           \* number of calls counted against MaxOps
    \* class App (app.h), the object whose run() is called once by PXR_MAIN
    pc,             \* where App::run is
    width, height, pixelSize, title, vsyncEnabled, backgroundColor,
    inSetupPhase, shouldExit, frameCount,
    deltaTime, fps, \* times in ticks, fps as the quotient num / den of two integers
    fpsTimer, fpsCounter, \* the locals of run()
    window, surface,
    input,          \* the Input object (NoInput before construction)
    api,            \* the last App member call made by user code
    nuser,          \* number of App member calls made by user code
    events,         \* what happened so far, in order
    \* class Graphics and the OpenGL context it works on
    graphics,       \* the Graphics object (NoGraphics before construction)
    gl,             \* the context: live objects, what is shown
    gcall,          \* the last Graphics member call made
    lastUpload      \* the buffer index the last successful upload used, -1 if none

\* User code outside the App object: its Surface objects, its error callback.
surfaceVars == <<src, dst, call, nops, errorCallback>>
configVars == <<width, height, pixelSize, title, vsyncEnabled>>
timingVars == <<deltaTime, fps, fpsTimer, fpsCounter>>
appVars == <<pc, width, height, pixelSize, title, vsyncEnabled, backgroundColor,
             inSetupPhase, shouldExit, frameCount, window, surface, api, nuser, events,
             deltaTime, fps, fpsTimer, fpsCounter, input>>
graphicsVars == <<graphics, gl, gcall, lastUpload>>
vars == <<failure, src, dst, call, nops, pc, width, height, pixelSize, title,
          vsyncEnabled, backgroundColor, inSetupPhase, shouldExit, frameCount,
          window, surface, api, nuser, events, graphics, gl, gcall, lastUpload,
          deltaTime, fps, fpsTimer, fpsCounter, input, errorCallback>>

(***************************************************************************)
(* User code working on two surfaces of its own: the members of Surface,   *)
(* called with arguments from the bounded sets.                            *)
(***************************************************************************)
Call(op, tgt, x, y, color, ret) ==
    [op |-> op, tgt |-> tgt, x |-> x, y |-> y, color |-> color, ret |-> ret]
NoCall == Call("none", "none", 0, 0, NoColor, NoColor)

SurfaceOf(t) == IF t = "src" THEN src ELSE dst

\* The surfaces after a call on t whose outcome is out.
SetSurface(t, out) ==
    /\ src' = IF t = "src" THEN out.surface ELSE src
    /\ dst' = IF t = "dst" THEN out.surface ELSE dst
    /\ failure' = out.failure

SurfaceInit ==
    /\ src = NoSurface
    /\ dst = NoSurface
    /\ call = NoCall
    /\ nops = 0

\* pxr::setErrorCallback(cb), cb a function or nullptr.
setErrorCallback(cb) ==
    /\ failure = NoFailure
    /\ errorCallback' = cb
    /\ UNCHANGED <<failure, src, dst, call, nops, appVars, graphicsVars>>

\* Surface t(w, h, color)
Construct(t, w, h, color) ==
    /\ failure = NoFailure
    /\ ~SurfaceOf(t).live
    /\ LET out == SurfaceCtor(w, h, color)
       IN /\ SetSurface(t, out)
          /\ call' = Call("Surface", t, w, h, color, NoColor)
    /\ UNCHANGED <<nops, errorCallback, appVars, graphicsVars>>

CanCall(t) ==
    /\ failure = NoFailure
    /\ SurfaceOf(t).live
    /\ nops < MaxOps
    /\ nops' = nops + 1
    /\ UNCHANGED <<errorCallback, appVars, graphicsVars>>

SetPixel(t, x, y, color) ==
    /\ CanCall(t)
    /\ LET out == SurfaceSetPixel(SurfaceOf(t), x, y, color)
       IN /\ SetSurface(t, out)
          /\ call' = Call("setPixel", t, x, y, color, NoColor)

GetPixel(t, x, y) ==
    /\ CanCall(t)
    /\ LET out == SurfaceGetPixel(SurfaceOf(t), x, y)
       IN /\ SetSurface(t, out)
          /\ call' = Call("getPixel", t, x, y, NoColor, out.ret)

Clear(t, color) ==
    /\ CanCall(t)
    /\ LET out == SurfaceClear(SurfaceOf(t), color)
       IN /\ SetSurface(t, out)
          /\ call' = Call("clear", t, 0, 0, color, NoColor)

\* src.blitTo(dst, dstX, dstY)
BlitTo(dstX, dstY) ==
    /\ CanCall("src")
    /\ dst.live
    /\ LET out == SurfaceBlitTo(src, dst, dstX, dstY)
       IN /\ SetSurface("dst", out)
          /\ call' = Call("blitTo", "dst", dstX, dstY, NoColor, NoColor)

\* src.blitTo(src, dstX, dstY): the target is the source object.
SelfBlitTo(dstX, dstY) ==
    /\ CanCall("src")
    /\ LET out == BlitLoop(src, src, TRUE, dstX, dstY, 0)
       IN /\ SetSurface("src", out)
          /\ call' = Call("blitTo", "src", dstX, dstY, NoColor, NoColor)

\* Surface dst(std::move(src))
MoveConstruct ==
    /\ failure = NoFailure
    /\ src.live /\ ~dst.live
    /\ LET out == SurfaceMoveCtor(src)
       IN src' = out.from /\ dst' = out.to
    /\ call' = Call("Surface(Surface &&)", "dst", 0, 0, NoColor, NoColor)
    /\ UNCHANGED <<failure, nops, errorCallback, appVars, graphicsVars>>

\* t = std::move(u)
MoveAssign(t, u) ==
    /\ CanCall(t)
    /\ SurfaceOf(u).live
    /\ LET out == SurfaceMoveAssign(SurfaceOf(t), SurfaceOf(u), t = u)
       IN /\ src' = IF t = "src" THEN out.to ELSE out.from
          /\ dst' = IF t = "dst" THEN out.to ELSE out.from
    /\ call' = Call("operator=(Surface &&)", t, 0, 0, NoColor, NoColor)
    /\ UNCHANGED failure

(***************************************************************************)
(* Code driving a Graphics object of its own, with a current context: the  *)
(* members of Graphics, called with the surfaces src and dst.              *)
(***************************************************************************)
\* A call, its arguments, and how many object names it generated and how
\* many live objects it deleted.
GCall(op, surf, n, created, released) ==
    [op |-> op, surf |-> surf, pixelSize |-> n, created |-> created, released |-> released]
NoGCall == GCall("none", NoSurface, 0, 0, 0)

GraphicsInit ==
    /\ graphics = NoGraphics
    /\ gl = GLNew
    /\ gcall = NoGCall
    /\ lastUpload = -1

\* The names one initialize() takes: texture, two transfer buffers, vertex
\* array, vertex buffer, two shaders, program.
NamesPerInitialize == 8
HasNames == gl.next + NamesPerInitialize <= MaxNames + 1

\* Graphics g;
ConstructGraphics ==
    /\ failure = NoFailure
    /\ ~graphics.exists
    /\ gcall = NoGCall
    /\ graphics' = GraphicsNew
    /\ gcall' = GCall("Graphics", NoSurface, 0, 0, 0)
    /\ UNCHANGED <<failure, gl, lastUpload, surfaceVars, appVars>>

\* A member call with the outcome out.
CallGraphics(op, surf, n, out) ==
    /\ failure = NoFailure
    /\ graphics.exists
    /\ failure' = out.failure
    /\ graphics' = out.graphics
    /\ gl' = out.gl
    /\ gcall' = GCall(op, surf, n, out.gl.next - gl.next,
                      Cardinality(DOMAIN gl.objects \ DOMAIN out.gl.objects))
    /\ UNCHANGED <<surfaceVars, timingVars, appVars>>

\* g.initialize(t)
InitializeGraphics(t, env) ==
    /\ SurfaceOf(t).live
    /\ HasNames
    /\ CallGraphics("initialize", SurfaceOf(t), 0,
                    GraphicsInitialize(graphics, gl, SurfaceOf(t), env))
    /\ UNCHANGED lastUpload

\* g.upload(t)
UploadSurface(t, env) ==
    /\ SurfaceOf(t).live
    /\ LET out == GraphicsUpload(graphics, gl, SurfaceOf(t), env)
       IN /\ CallGraphics("upload", SurfaceOf(t), 0, out)
          /\ lastUpload' = IF out.failure = NoFailure
                           THEN out.graphics.currentPBO
                           ELSE lastUpload

\* g.render(n)
RenderQuad(n, junk) ==
    /\ CallGraphics("render", NoSurface, n, GraphicsRender(graphics, gl, n, junk))
    /\ UNCHANGED lastUpload

\* g.resize(t)
ResizeGraphics(t, env) ==
    /\ SurfaceOf(t).live
    /\ HasNames
    /\ CallGraphics("resize", SurfaceOf(t), 0,
                    GraphicsResize(graphics, gl, SurfaceOf(t), env))
    /\ UNCHANGED lastUpload

\* destroy(), the private member, as resize() and the destructor call it.
DestroyGraphics ==
    /\ CallGraphics("destroy", NoSurface, 0, GraphicsDestroy(graphics, gl))
    /\ UNCHANGED lastUpload

\* Graphics::~Graphics() { destroy(); }, after which there is no object.
DestructGraphics ==
    /\ CallGraphics("~Graphics", NoSurface, 0,
                    [GraphicsDestroy(graphics, gl) EXCEPT !.graphics = NoGraphics])
    /\ UNCHANGED lastUpload

(***************************************************************************)
(* app.cpp : the members of App that user code calls. User code runs       *)
(* before run() (pc = "idle"), inside the hooks setup(), update() and      *)
(* destroy(), and after run() has returned.                                *)
(***************************************************************************)
UserPcs == {"idle", "setup", "update", "destroy", "returned"}

SetupMsg(funcName) ==
    CASE funcName = "setVSync" -> "setVSync must be called inside setup()"
      [] funcName = "setSize" -> "setSize must be called inside setup()"
      [] funcName = "setPixelSize" -> "setPixelSize must be called inside setup()"
      [] funcName = "setTitle" -> "setTitle must be called inside setup()"

\* enforceSetupCall without its assertion.
enforceSetupCall_Unchecked(funcName) == NoFailure

\* App::enforceSetupCall: PXR_ASSERT(inSetupPhase, funcName + " must be called inside setup()")
enforceSetupCall(funcName) ==
    IF inSetupPhase THEN NoFailure ELSE AssertFailure(SetupMsg(funcName))

UserCall(op, args) ==
    /\ failure = NoFailure
    /\ pc \in UserPcs
    /\ nuser < MaxUserOps
    /\ nuser' = nuser + 1
    /\ api' = [op |-> op, args |-> args]
    /\ UNCHANGED <<pc, window, frameCount, inSetupPhase, surfaceVars,
                   graphicsVars, timingVars, input>>

setVSync(enabled) ==
    /\ UserCall("setVSync", <<enabled>>)
    /\ failure' = enforceSetupCall("setVSync")
    /\ vsyncEnabled' = IF failure' = NoFailure THEN enabled ELSE vsyncEnabled
    /\ UNCHANGED <<width, height, pixelSize, title, shouldExit, events, surface, backgroundColor>>

setSize(w, h) ==
    /\ UserCall("setSize", <<w, h>>)
    /\ failure' = enforceSetupCall("setSize")
    /\ width' = IF failure' = NoFailure THEN w ELSE width
    /\ height' = IF failure' = NoFailure THEN h ELSE height
    /\ UNCHANGED <<pixelSize, title, vsyncEnabled, shouldExit, events, surface, backgroundColor>>

setPixelSize(size) ==
    /\ UserCall("setPixelSize", <<size>>)
    /\ failure' = enforceSetupCall("setPixelSize")
    /\ pixelSize' = IF failure' = NoFailure THEN size ELSE pixelSize
    /\ UNCHANGED <<width, height, title, vsyncEnabled, shouldExit, events, surface, backgroundColor>>

setTitle(t) ==
    /\ UserCall("setTitle", <<t>>)
    /\ failure' = enforceSetupCall("setTitle")
    /\ title' = IF failure' = NoFailure THEN t ELSE title
    /\ UNCHANGED <<width, height, pixelSize, vsyncEnabled, shouldExit, events, surface, backgroundColor>>

\* App::exit
exit ==
    /\ UserCall("exit", <<>>)
    /\ shouldExit' = TRUE
    /\ events' = Append(events, "exit")
    /\ UNCHANGED <<failure, width, height, pixelSize, title, vsyncEnabled, surface, backgroundColor>>

\* The read-only queries of App (getSize and getWindowSize read as the two
\* queries of their components do; the key and button queries as the mouse
\* queries do).
Queries ==
    {"isRunning", "isInSetupPhase", "isVSyncEnabled", "getWidth", "getHeight",
     "getPixelSize", "getWindowWidth", "getWindowHeight", "getTitle", "getMouseX",
     "getMouseY", "getMouseWindowX", "getMouseWindowY", "getFrameCount", "getFps",
     "getDeltaTime"}
\* The object query q reads its value from: a member of App itself ("App",
\* a constant for an input query without Input), or the object behind one of
\* the pointers window, surface and input. isRunning() evaluates
\* !shouldExit && !window->shouldClose() and isVSyncEnabled() evaluates
\* window->isVSyncEnabled(): neither tests window.
QueryReads(q) ==
    CASE q = "isRunning" ->
            IF shouldExit THEN "App" ELSE IF window.exists THEN "window" ELSE "null window"
      [] q = "isVSyncEnabled" -> IF window.exists THEN "window" ELSE "null window"
      [] q \in {"getWidth", "getHeight"} -> IF surface.live THEN "surface" ELSE "App"
      [] q \in {"getWindowWidth", "getWindowHeight", "getTitle"} ->
            IF window.exists THEN "window" ELSE "App"
      [] q \in {"getMouseX", "getMouseY", "getMouseWindowX", "getMouseWindowY"} ->
            IF input.exists THEN "input" ELSE "App"
      [] OTHER -> "App"
\* A call of query q by user code. A read through the null window has no
\* defined behaviour: the build crashes (crash) or returns whatever it finds.
CallQuery(q, crash) ==
    /\ UserCall(q, <<QueryReads(q)>>)
    /\ failure' = IF QueryReads(q) = "null window" /\ crash
                  THEN UndefinedBehaviour("window-> on a null pointer")
                  ELSE NoFailure
    /\ UNCHANGED <<configVars, shouldExit, events, surface, backgroundColor>>

\* What user code throws: a std::exception or something else.
StdExceptions == {"std::runtime_error"}
Throwables == StdExceptions \cup {"int"}
\* throw e inside update(): run() has no handler, so the exception leaves it.
Throw(e) ==
    /\ failure = NoFailure
    /\ pc = "update"
    /\ failure' = IF e \in StdExceptions THEN Exception(e) ELSE Uncaught(e)
    /\ UNCHANGED <<surfaceVars, timingVars, graphicsVars, input, configVars, backgroundColor,
                   inSetupPhase, shouldExit, frameCount, window, surface, api, nuser, events, pc>>

\* App::drawPixel(int x, int y, const Color &color)
drawPixel(x, y, color) ==
    /\ UserCall("drawPixel", <<x, y, color>>)
    /\ LET out == IF surface.live
                  THEN SurfaceSetPixel(surface, x, y, color)
                  ELSE Outcome(NoFailure, surface, NoColor)
       IN /\ failure' = out.failure
          /\ surface' = out.surface
    /\ UNCHANGED <<configVars, shouldExit, events, backgroundColor>>

\* background() that only records the color.
background_RecordsOnly(color) ==
    /\ UserCall("background", <<color>>)
    /\ backgroundColor' = color
    /\ UNCHANGED <<failure, configVars, shouldExit, events, surface>>
\* App::background(const Color &color)
background(color) ==
    /\ UserCall("background", <<color>>)
    /\ backgroundColor' = color
    /\ surface' = IF surface.live THEN SurfaceClear(surface, color).surface ELSE surface
    /\ UNCHANGED <<failure, configVars, shouldExit, events>>

\* App::drawSurface(const Surface &src, int x, int y), s being the surface
\* of user code that is passed.
drawSurface(s, x, y) ==
    /\ UserCall("drawSurface", <<x, y>>)
    /\ LET out == IF surface.live
                  THEN SurfaceBlitTo(s, surface, x, y)
                  ELSE Outcome(NoFailure, surface, NoColor)
       IN /\ failure' = out.failure
          /\ surface' = out.surface
    /\ UNCHANGED <<configVars, shouldExit, events, backgroundColor>>

(***************************************************************************)
(* app.cpp : the read-only queries of App, as the values they return in    *)
(* the current state.                                                      *)
(***************************************************************************)
\* The frame counter counted from 1.
getFrameCount_FromOne == frameCount + 1
\* App::getFrameCount
getFrameCount == frameCount
\* App::isInSetupPhase
isInSetupPhase == inSetupPhase
\* App::getWidth, App::getHeight: the surface's once there is one.
getWidth == IF surface.live THEN surface.width ELSE width
getHeight == IF surface.live THEN surface.height ELSE height
\* App::getPixelSize
getPixelSize == pixelSize
\* App::getWindowWidth, App::getWindowHeight: the Window's once there is one.
getWindowWidth == IF window.exists THEN window.width ELSE width * pixelSize
getWindowHeight == IF window.exists THEN window.height ELSE height * pixelSize
\* The test "input ?" of App::getMouseX and App::getMouseY, which divide the
\* window coordinate by pixelSize when it holds: run() makes the Input object
\* before the Surface object (line 41).
HasInput == input.exists
\* getMouseX without the division.
getMouseX_Raw == IF HasInput THEN input.mouseX ELSE 0
\* App::getMouseX, App::getMouseY
getMouseX == IF HasInput THEN CDiv(input.mouseX, pixelSize) ELSE 0
getMouseY == IF HasInput THEN CDiv(input.mouseY, pixelSize) ELSE 0
\* App::getMouseWindowX, App::getMouseWindowY, through Input::getMouseWindowX
\* and Input::getMouseWindowY, which return mouseX and mouseY.
getMouseWindowX == IF HasInput THEN input.mouseX ELSE 0
getMouseWindowY == IF HasInput THEN input.mouseY ELSE 0

(***************************************************************************)
(* app.cpp : App::run, one action per statement or group of statements.    *)
(* Times (float seconds in the code) are whole ticks of a millisecond; the *)
(* times tried and their sums are exact in float as well. A quotient of    *)
(* two floats is kept as its numerator and denominator.                    *)
(***************************************************************************)
TicksPerSecond == 1000
\* float deltaTime = 0.016f
InitialDeltaTime == 16
Quotient(n, d) == [num |-> n, den |-> d]
\* Two quotients are the same number.
SameNumber(a, b) == a.num * b.den = b.num * a.den

Log(e) == events' = Append(events, e)

\* A step of run() that is a call of a member of Graphics with the outcome
\* out: it logs and moves on unless the call failed.
GraphicsStep(op, surf, n, out, event, to) ==
    /\ failure = NoFailure
    /\ failure' = out.failure
    /\ graphics' = out.graphics
    /\ gl' = out.gl
    /\ gcall' = GCall(op, surf, n, out.gl.next - gl.next,
                      Cardinality(DOMAIN gl.objects \ DOMAIN out.gl.objects))
    /\ IF out.failure = NoFailure
       THEN Log(event) /\ pc' = to
       ELSE UNCHANGED <<events, pc>>
    /\ UNCHANGED <<surfaceVars, timingVars, configVars, backgroundColor, inSetupPhase, shouldExit,
                   frameCount, window, surface, api, nuser>>

\* Lines 36-37: inSetupPhase = true; setup() is entered.
RunBegin ==
    /\ failure = NoFailure
    /\ pc = "idle"
    /\ inSetupPhase' = TRUE
    /\ Log("setup")
    /\ pc' = "setup"
    /\ UNCHANGED <<surfaceVars, timingVars, input, graphicsVars, failure, configVars, backgroundColor, shouldExit, frameCount,
                   window, surface, api, nuser>>

\* A run() that forgets an exit request made before its loop.
SetupReturn_ClearsExit ==
    /\ failure = NoFailure
    /\ pc = "setup"
    /\ inSetupPhase' = FALSE
    /\ shouldExit' = FALSE
    /\ pc' = "construct"
    /\ UNCHANGED <<surfaceVars, timingVars, input, graphicsVars, failure, configVars,
                   backgroundColor, frameCount, window, surface, api, nuser, events>>
\* setup() has returned and the flag is left as it is.
SetupReturn_KeepsFlag ==
    /\ failure = NoFailure
    /\ pc = "setup"
    /\ pc' = "construct"
    /\ UNCHANGED <<surfaceVars, timingVars, input, graphicsVars, failure, configVars,
                   backgroundColor, shouldExit, frameCount, window, surface, api, nuser, events,
                   inSetupPhase>>
\* Line 38: setup() has returned; inSetupPhase = false.
SetupReturn ==
    /\ failure = NoFailure
    /\ pc = "setup"
    /\ inSetupPhase' = FALSE
    /\ pc' = "construct"
    /\ UNCHANGED <<surfaceVars, timingVars, input, graphicsVars, failure, configVars, backgroundColor, shouldExit, frameCount,
                   window, surface, api, nuser, events>>

\* Lines 40-43: the Window, Input and Graphics objects, then
\* Surface(width, height, backgroundColor).
CreateSurface ==
    /\ failure = NoFailure
    /\ pc = "construct"
    /\ window' = WindowNew
    /\ input' = InputNew
    /\ graphics' = GraphicsNew
    /\ LET out == SurfaceCtor(width, height, backgroundColor)
       IN /\ failure' = out.failure
          /\ surface' = out.surface
          /\ IF out.failure = NoFailure
             THEN Log("createSurface") /\ pc' = "createWindow"
             ELSE UNCHANGED <<events, pc>>
    /\ UNCHANGED <<surfaceVars, timingVars, gl, gcall, lastUpload, configVars, backgroundColor, inSetupPhase,
                   shouldExit, frameCount, api, nuser>>

\* The window created at the size of the surface, not scaled.
CreateWindow_Unscaled(env) ==
    /\ failure = NoFailure
    /\ pc = "createWindow"
    /\ LET out == WindowCreate(window, surface.width, surface.height, title, vsyncEnabled, env)
       IN /\ failure' = out.failure
          /\ window' = out.window
          /\ IF out.failure = NoFailure
             THEN Log("createWindow") /\ pc' = "initialize"
             ELSE UNCHANGED <<events, pc>>
    /\ UNCHANGED <<surfaceVars, timingVars, input, graphicsVars, configVars, backgroundColor, inSetupPhase, shouldExit, frameCount,
                   surface, api, nuser>>
\* Line 45: window->create(surface width * pixelSize, surface height * pixelSize,
\* title, vsyncEnabled).
CreateWindow(env) ==
    /\ failure = NoFailure
    /\ pc = "createWindow"
    /\ LET out == WindowCreate(window, surface.width * pixelSize,
                               surface.height * pixelSize, title, vsyncEnabled, env)
       IN /\ failure' = out.failure
          /\ window' = out.window
          /\ IF out.failure = NoFailure
             THEN Log("createWindow") /\ pc' = "initialize"
             ELSE UNCHANGED <<events, pc>>
    /\ UNCHANGED <<surfaceVars, timingVars, input, graphicsVars, configVars, backgroundColor, inSetupPhase, shouldExit, frameCount,
                   surface, api, nuser>>

\* Lines 46-47: input->initialize(handle); graphics->initialize(*surface).
Initialize(env) ==
    /\ pc = "initialize"
    /\ LET init == InputInitialize(input, window.handle)
       IN /\ input' = init.input
          /\ GraphicsStep("initialize", surface, 0,
                          IF init.failure = NoFailure
                          THEN GraphicsInitialize(graphics, gl, surface, env)
                          ELSE GOut(init.failure, graphics, gl),
                          "initializeGraphics", "loop")
    /\ UNCHANGED lastUpload

\* The loop condition without one of its two tests.
LoopCondition_IgnoresExit == ~window.shouldClose
LoopCondition_IgnoresClose == ~shouldExit

\* Line 49: the loop condition.
LoopCondition == ~shouldExit /\ ~window.shouldClose

\* Lines 49-53, condition true: the next iteration starts; deltaTime is the
\* time since the previous reading of the clock.
LoopEnter(delta) ==
    /\ failure = NoFailure
    /\ pc = "loop"
    /\ LoopCondition
    /\ frameCount < MaxFrames
    /\ deltaTime' = delta
    /\ pc' = "pollEvents"
    /\ UNCHANGED <<surfaceVars, input, fps, fpsTimer, fpsCounter, graphicsVars, failure, configVars, backgroundColor, inSetupPhase, shouldExit,
                   frameCount, window, surface, api, nuser, events>>

\* Line 55: window->pollEvents(); the native window may have been asked to close.
PollEvents(closeRequested) ==
    /\ failure = NoFailure
    /\ pc = "pollEvents"
    /\ window' = [window EXCEPT !.shouldClose = @ \/ closeRequested]
    /\ Log("pollEvents")
    /\ pc' = "inputPoll"
    /\ UNCHANGED <<surfaceVars, timingVars, input, graphicsVars, failure, configVars, backgroundColor, inSetupPhase, shouldExit,
                   frameCount, surface, api, nuser>>

\* A step of run() that changes pc and logs, nothing else.
Step(from, event, to) ==
    /\ failure = NoFailure
    /\ pc = from
    /\ Log(event)
    /\ pc' = to
    /\ UNCHANGED <<surfaceVars, timingVars, input, graphicsVars, failure, configVars, backgroundColor, inSetupPhase, shouldExit,
                   frameCount, window, surface, api, nuser>>

\* Line 56: input->poll()
InputPoll(cursor) ==
    /\ failure = NoFailure
    /\ pc = "inputPoll"
    /\ input' = InputPollTo(input, cursor)
    /\ Log("inputPoll")
    /\ pc' = "callUpdate"
    /\ UNCHANGED <<surfaceVars, timingVars, graphicsVars, failure, configVars, backgroundColor,
                   inSetupPhase, shouldExit, frameCount, window, surface, api, nuser>>
\* Line 58: update() is entered ...
UpdateBegin == pc = "callUpdate" /\ Step("callUpdate", "update", "update")
\* A runtime that clears the surface to the background color for each frame.
UpdateReturn_ClearsSurface ==
    /\ failure = NoFailure
    /\ pc = "update"
    /\ pc' = "upload"
    /\ surface' = SurfaceClear(surface, backgroundColor).surface
    /\ UNCHANGED <<surfaceVars, timingVars, input, graphicsVars, failure, configVars, backgroundColor, inSetupPhase, shouldExit,
                   frameCount, window, api, nuser, events>>
\* ... and returns.
UpdateReturn ==
    /\ failure = NoFailure
    /\ pc = "update"
    /\ pc' = "upload"
    /\ UNCHANGED <<surfaceVars, timingVars, input, graphicsVars, failure, configVars, backgroundColor, inSetupPhase, shouldExit,
                   frameCount, window, surface, api, nuser, events>>
\* The upload of an iteration on a pipeline initialised again for it.
Upload_Reinitializing(env) ==
    /\ pc = "upload"
    /\ LET again == GraphicsInitialize(graphics, gl, surface, "ok")
           out == GraphicsUpload(again.graphics, again.gl, surface, env)
       IN /\ GraphicsStep("upload", surface, 0, out, "upload", "render")
          /\ UNCHANGED input
          /\ lastUpload' = IF out.failure = NoFailure
                           THEN out.graphics.currentPBO
                           ELSE lastUpload
\* Line 60: graphics->upload(*surface)
Upload(env) ==
    /\ pc = "upload"
    /\ LET out == GraphicsUpload(graphics, gl, surface, env)
       IN /\ GraphicsStep("upload", surface, 0, out, "upload", "render")
          /\ UNCHANGED input
          /\ lastUpload' = IF out.failure = NoFailure
                           THEN out.graphics.currentPBO
                           ELSE lastUpload
\* The iteration without its render() call.
Render_Omitted(junk) == pc = "render" /\ Step("render", "swapBuffers", "count")
\* Line 61: graphics->render(pixelSize)
Render(junk) ==
    /\ pc = "render"
    /\ GraphicsStep("render", NoSurface, pixelSize,
                    GraphicsRender(graphics, gl, pixelSize, junk), "render", "swapBuffers")
    /\ UNCHANGED <<lastUpload, input>>
\* Line 62: window->swapBuffers()
SwapBuffers == pc = "swapBuffers" /\ Step("swapBuffers", "swapBuffers", "count")
\* The threshold of the recomputation met by every accumulated time.
FpsDue_Always(timer) == TRUE
\* Line 68: fpsTimer >= 1.0f
FpsDue(timer) == timer >= TicksPerSecond

\* Lines 64-72: frameCount++; fpsCounter++; fpsTimer += deltaTime; the
\* recomputation of fps when a second or more has accumulated.
CountFrame ==
    /\ failure = NoFailure
    /\ pc = "count"
    /\ frameCount' = frameCount + 1
    /\ LET counter == fpsCounter + 1
           timer == fpsTimer + deltaTime
       IN IF FpsDue(timer)
          THEN /\ fps' = Quotient(counter * TicksPerSecond, timer)
               /\ fpsCounter' = 0
               /\ fpsTimer' = 0
          ELSE /\ fpsCounter' = counter
               /\ fpsTimer' = timer
               /\ UNCHANGED fps
    /\ Log("frameCount")
    /\ pc' = "loop"
    /\ UNCHANGED <<surfaceVars, input, deltaTime, graphicsVars, failure, configVars, backgroundColor, inSetupPhase, shouldExit,
                   window, surface, api, nuser>>

\* The shutdown without the call of the destroy() hook.
LoopExit_NoHook ==
    /\ ~LoopCondition
    /\ failure = NoFailure
    /\ pc = "loop"
    /\ pc' = "destroyWindow"
    /\ UNCHANGED <<surfaceVars, timingVars, input, graphicsVars, failure, configVars, backgroundColor, inSetupPhase, shouldExit,
                   frameCount, window, surface, api, nuser, events>>

\* Lines 49 and 75: condition false; the destroy() hook is entered ...
LoopExit ==
    /\ ~LoopCondition
    /\ Step("loop", "destroy", "destroy")
\* ... and returns.
DestroyReturn ==
    /\ failure = NoFailure
    /\ pc = "destroy"
    /\ pc' = "destroyWindow"
    /\ UNCHANGED <<surfaceVars, timingVars, input, graphicsVars, failure, configVars, backgroundColor, inSetupPhase, shouldExit,
                   frameCount, window, surface, api, nuser, events>>
\* Line 76: window->destroy(); run() returns.
DestroyWindow ==
    /\ failure = NoFailure
    /\ pc = "destroyWindow"
    /\ window' = WindowDestroy(window)
    /\ Log("destroyWindow")
    /\ pc' = "returned"
    /\ UNCHANGED <<surfaceVars, timingVars, input, graphicsVars, failure, configVars, backgroundColor, inSetupPhase, shouldExit,
                   frameCount, surface, api, nuser>>

\* Whether Graphics::destroy() of g makes an OpenGL call: it has a handle
\* that is not zero.
DestroyCallsGL(g) ==
    g.exists /\ (g.texture # 0 \/ g.pbo[1] # 0 \/ g.vao # 0 \/ g.vbo # 0 \/ g.shaderProgram # 0)

\* App::~App() = default, at the end of the scope of the App object after
\* run() has returned: the members are destroyed in the reverse order of
\* their declaration, input, surface, graphics (~Graphics calls destroy())
\* and window (~Window calls destroy()). An OpenGL call made when the window
\* and its context are gone has no defined behaviour: the build ignores it
\* or crashes (crash), and a crash ends the process before ~Window.
DestructApp(crash) ==
    /\ failure = NoFailure
    /\ pc = "returned"
    /\ LET calls == DestroyCallsGL(graphics)
           lost == calls /\ ~window.handle
       IN /\ events' = events \o (IF calls THEN <<"~Graphics: glDelete">> ELSE <<>>)
                               \o (IF lost /\ crash THEN <<>> ELSE <<"~Window">>)
          /\ gl' = IF lost \/ ~graphics.exists THEN gl ELSE GraphicsDestroy(graphics, gl).gl
          /\ IF lost /\ crash
             THEN /\ failure' = UndefinedBehaviour("OpenGL call without a current context")
                  /\ UNCHANGED <<graphics, window, pc>>
             ELSE /\ graphics' = NoGraphics
                  /\ window' = WindowDestroy(window)
                  /\ pc' = "destructed"
                  /\ UNCHANGED failure
    /\ UNCHANGED <<surfaceVars, timingVars, input, gcall, lastUpload, configVars,
                   backgroundColor, inSetupPhase, shouldExit, frameCount, surface, api, nuser>>

(***************************************************************************)
(* Specifications.                                                         *)
(***************************************************************************)
\* App(): the member initialisers of app.h.
AppInit ==
    /\ pc = "idle"
    /\ width = 400
    /\ height = 400
    /\ pixelSize = 1
    /\ backgroundColor = ColorBlack
    /\ title = "Pixel Runtime"
    /\ vsyncEnabled = TRUE
    /\ inSetupPhase = FALSE
    /\ shouldExit = FALSE
    /\ frameCount = 0
    /\ deltaTime = InitialDeltaTime
    /\ fps = Quotient(0, 1)
    /\ fpsTimer = 0
    /\ fpsCounter = 0
    /\ window = NoWindow
    /\ input = NoInput
    /\ surface = NoSurface
    /\ api = [op |-> "none", args |-> <<>>]
    /\ nuser = 0
    /\ events = <<>>

Init == failure = NoFailure /\ errorCallback = FALSE /\ AppInit /\ SurfaceInit /\ GraphicsInit

PixelSizes == -1..MaxDim
\* The frame times tried: half a second and a whole second.
DeltaTimes == {500, TicksPerSecond}
Titles == {"Demo"}
\* Where the cursor is when it is read, in half pixels: the window's corner,
\* and a point 3.5 to its right and 1.5 above it.
CursorPositions == {<<0, 0>>, <<7, -3>>}

\* What user code may do wherever it runs.
UserStep ==
    \/ \E b \in BOOLEAN : setVSync(b)
    \/ \E w \in Dims, h \in Dims : setSize(w, h)
    \/ \E n \in PixelSizes : setPixelSize(n)
    \/ \E t \in Titles : setTitle(t)
    \/ exit
    \/ \E e \in Throwables : Throw(e)

\* The steps of run().
RunStep ==
    \/ RunBegin
    \/ SetupReturn
    \/ CreateSurface
    \/ \E env \in WindowCreateFailures \cup {"ok"} : CreateWindow(env)
    \/ \E env \in ShaderFailures \cup {"ok"} : Initialize(env)
    \/ \E delta \in DeltaTimes : LoopEnter(delta)
    \/ \E closeRequested \in BOOLEAN : PollEvents(closeRequested)
    \/ \E cursor \in CursorPositions : InputPoll(cursor)
    \/ UpdateBegin
    \/ UpdateReturn
    \/ \E env \in UploadFailures \cup {"ok"} : Upload(env)
    \/ \E junk \in Junk : Render(junk)
    \/ SwapBuffers
    \/ CountFrame
    \/ LoopExit
    \/ DestroyReturn
    \/ DestroyWindow

\* One App object, run once.
Next == UserStep \/ RunStep
Spec == Init /\ [][Next]_vars

\* One App object, run once and destroyed after run() has returned, as in
\* the scope of PXR_MAIN.
LifeNext == UserStep \/ RunStep \/ \E crash \in BOOLEAN : DestructApp(crash)
LifeSpec == Init /\ [][LifeNext]_vars

\* One App object whose setup() may ask for a surface of 4 by 4 and whose
\* update() may draw the pixel (0, 0).
Sprite == SurfaceCtor(1, 1, ColorRed).surface
EndToEndNext ==
    \/ pc = "setup" /\ setSize(4, 4)
    \/ \E c \in TestColors : pc \in {"setup", "update"} /\ drawPixel(0, 0, c)
    \/ \E c \in TestColors : pc \in {"setup", "update"} /\ background(c)
    \/ \E x \in 0..1 : pc \in {"setup", "update"} /\ drawSurface(Sprite, x, 0)
    \/ UserStep
    \/ RunStep
EndToEndSpec == Init /\ [][EndToEndNext]_vars

\* One Surface object of user code.
SurfaceNext ==
    \/ \E w \in Dims, h \in Dims, c \in TestColors : Construct("dst", w, h, c)
    \/ \E x \in Coords, y \in Coords, c \in TestColors : SetPixel("dst", x, y, c)
    \/ \E x \in Coords, y \in Coords : GetPixel("dst", x, y)
    \/ \E c \in TestColors : Clear("dst", c)
    \/ \E cb \in BOOLEAN : setErrorCallback(cb)
SurfaceSpec == Init /\ [][SurfaceNext]_vars

\* Two Surface objects of user code, src constructed first and blitted to dst.
BlitNext ==
    \/ \E w \in 1..MaxDim, h \in 1..MaxDim, c \in TestColors :
          ~src.live /\ Construct("src", w, h, c)
    \/ \E w \in 1..MaxDim, h \in 1..MaxDim, c \in TestColors :
          src.live /\ Construct("dst", w, h, c)
    \/ \E x \in 0..MaxDim, y \in 0..MaxDim, c \in TestColors : SetPixel("src", x, y, c)
    \/ \E dstX \in Coords, dstY \in Coords : BlitTo(dstX, dstY)
BlitSpec == Init /\ [][BlitNext]_vars

\* One App object whose user code also calls the queries.
QueryNext == UserStep \/ RunStep \/ \E q \in Queries, crash \in BOOLEAN : CallQuery(q, crash)
QuerySpec == Init /\ [][QueryNext]_vars

\* One Surface object of user code blitted to itself. The sizes: three
\* pixels in a row, three in a column, and a square.
SelfBlitSizes == {<<3, 1>>, <<1, 3>>, <<2, 2>>}
SelfBlitNext ==
    \/ \E d \in SelfBlitSizes, c \in TestColors : Construct("src", d[1], d[2], c)
    \/ \E x \in 0..1, y \in 0..1, c \in TestColors : SetPixel("src", x, y, c)
    \/ \E dstX \in Coords, dstY \in Coords : SelfBlitTo(dstX, dstY)
SelfBlitSpec == Init /\ [][SelfBlitNext]_vars

\* Two Surface objects of user code that are also moved.
MoveNext ==
    \/ \E w \in 1..MaxDim, h \in 1..MaxDim :
          ~src.live /\ ~dst.live /\ Construct("src", w, h, ColorRed)
    \/ \E w \in 1..MaxDim : src.live /\ Construct("dst", w, 1, ColorBlack)
    \/ MoveConstruct
    \/ \E t \in {"src", "dst"}, u \in {"src", "dst"} : MoveAssign(t, u)
    \/ \E t \in {"src", "dst"}, x \in 0..MaxDim, y \in 0..1 :
          SetPixel(t, x, y, ColorRGBA(10, 20, 30, 40))
    \/ \E t \in {"src", "dst"}, x \in 0..MaxDim, y \in 0..1 : GetPixel(t, x, y)
    \/ \E t \in {"src", "dst"} : Clear(t, ColorRGBA(10, 20, 30, 40))
    \/ \E dstX \in 0..1 : BlitTo(dstX, 0)
MoveSpec == Init /\ [][MoveNext]_vars

\* One Graphics object of user code and the surfaces src and dst handed to it.
\* The sizes of src and dst: pairs of equal size, of equal width only, of
\* equal height only.
TestSizes == {<<1, 1>>, <<1, 2>>, <<2, 2>>}
GraphicsNext ==
    \/ \E d \in TestSizes : ~src.live /\ Construct("src", d[1], d[2], ColorBlack)
    \/ \E d \in TestSizes : src.live /\ Construct("dst", d[1], d[2], ColorRed)
    \/ gcall = NoGCall /\ SetPixel("src", 0, 0, ColorRGBA(10, 20, 30, 40))
    \/ gcall.op = "upload" /\ Clear("src", ColorRGBA(10, 20, 30, 40))
    \/ dst.live /\ ConstructGraphics
    \/ \E t \in {"src", "dst"}, env \in ShaderFailures \cup {"ok"} : InitializeGraphics(t, env)
    \/ \E t \in {"src", "dst"}, env \in UploadFailures \cup {"ok"} : UploadSurface(t, env)
    \/ \E n \in {1, MaxDim}, junk \in Junk : RenderQuad(n, junk)
    \/ \E t \in {"src", "dst"}, env \in ShaderFailures \cup {"ok"} : ResizeGraphics(t, env)
    \/ DestroyGraphics
    \/ DestructGraphics
GraphicsSpec == Init /\ [][GraphicsNext]_vars

\* The run of one App object to its end: run() is one thread that executes
\* its next statement whenever there is one, and every hook returns.
LiveSpec == Spec /\ WF_vars(RunStep)

(***************************************************************************)
(* Claims about the lifecycle (app.cpp).                                   *)
(***************************************************************************)
IsPrefix(a, b) == Len(a) <= Len(b) /\ a = SubSeq(b, 1, Len(a))
Count(seq, e) == Cardinality({i \in 1..Len(seq) : seq[i] = e})
Copies(k, e) == [i \in 1..k |-> e]

Setters == {"setVSync", "setSize", "setPixelSize", "setTitle"}

\* The configuration after this step holds the arguments of the setter called.
Stores(op, args) ==
    CASE op = "setVSync" -> vsyncEnabled' = args[1] /\ UNCHANGED <<width, height, pixelSize, title>>
      [] op = "setSize" -> width' = args[1] /\ height' = args[2]
                           /\ UNCHANGED <<pixelSize, title, vsyncEnabled>>
      [] op = "setPixelSize" -> pixelSize' = args[1] /\ UNCHANGED <<width, height, title, vsyncEnabled>>
      [] op = "setTitle" -> title' = args[1] /\ UNCHANGED <<width, height, pixelSize, vsyncEnabled>>

\* C1: a configuration setter called anywhere but inside setup() (before
\* run(), inside update(), inside destroy(), after run() returned) ends the
\* process with the precondition violation "<setter> must be called inside
\* setup()" and leaves the configuration as it was; called inside setup() it
\* succeeds and stores its arguments.
C1_SettersOnlyInSetup ==
    [][(nuser' = nuser + 1 /\ api'.op \in Setters) =>
          IF pc = "setup"
          THEN failure' = NoFailure /\ Stores(api'.op, api'.args)
          ELSE /\ failure' = AssertFailure(SetupMsg(api'.op))
               /\ UNCHANGED configVars]_vars

\* A setSize(1, 1) inside update() has failed after a setSize(2, 2) in setup()
\* had been stored.
C1_Witness ==
    /\ pc = "update"
    /\ api = [op |-> "setSize", args |-> <<1, 1>>]
    /\ failure = AssertFailure("setSize must be called inside setup()")
    /\ width = 2 /\ height = 2

LifecycleEvents ==
    {"setup", "createSurface", "createWindow", "initializeGraphics", "update",
     "destroy", "destroyWindow"}
IsLifecycleEvent(e) == e \in LifecycleEvents
Lifecycle == SelectSeq(events, IsLifecycleEvent)
\* A whole run with k iterations.
WholeRun(k) ==
    <<"setup", "createSurface", "createWindow", "initializeGraphics">>
        \o Copies(k, "update") \o <<"destroy", "destroyWindow">>

\* C2: the lifecycle events of a run occur in the order setup(), creation of
\* Surface/Window/Graphics, one update() per loop iteration, the destroy()
\* hook, destruction of the Window, each but update() exactly once and nothing
\* after the destroy() hook but the destruction of the Window; a run() that
\* has returned has gone through all of them.
C2_LifecycleOrder ==
    /\ IsPrefix(Lifecycle, WholeRun(Count(events, "update")))
    /\ pc = "returned" =>
          /\ Lifecycle = WholeRun(Count(events, "update"))
          /\ Count(events, "update") = Count(events, "pollEvents")
          /\ Count(events, "update") = frameCount

\* A run that made an iteration and was ended by the window's close signal.
C2_Witness ==
    /\ pc = "returned"
    /\ Count(events, "update") >= 1
    /\ window.shouldClose /\ ~shouldExit

FrameCycle ==
    <<"pollEvents", "inputPoll", "update", "upload", "render", "swapBuffers", "frameCount">>
IsFrameStep(e) == \E i \in 1..Len(FrameCycle) : FrameCycle[i] = e
FrameSteps == SelectSeq(events, IsFrameStep)

\* C3: every loop iteration does pollEvents, input poll, update(), upload,
\* render, swapBuffers, frame-counter increment, each once and in this order:
\* the steps made so far are the cycle repeated, and the frame counter counts
\* the completed cycles.
C3_FrameOrder ==
    /\ \A i \in 1..Len(FrameSteps) : FrameSteps[i] = FrameCycle[((i - 1) % Len(FrameCycle)) + 1]
    /\ frameCount = Len(FrameSteps) \div Len(FrameCycle)

\* Two whole iterations have been made.
C3_Witness == pc = "loop" /\ frameCount = 2 /\ Len(FrameSteps) = 2 * Len(FrameCycle)

IsNotExit(e) == e # "exit"
\* events[i] is an exit() made inside update(): the last thing before it, other
\* exit() calls aside, is the entry of update().
ExitInUpdate(i) ==
    /\ events[i] = "exit"
    /\ LET before == SelectSeq(SubSeq(events, 1, i - 1), IsNotExit)
       IN Len(before) > 0 /\ before[Len(before)] = "update"
AfterEvent(i) == SelectSeq(SubSeq(events, i + 1, Len(events)), IsNotExit)

\* C4: after an exit() made inside update() of frame k, what run() does is
\* the rest of frame k (upload, render, swapBuffers, frame-counter increment)
\* and then the shutdown: update() is not entered again.
C4_ExitAtIterationBoundary ==
    \A i \in 1..Len(events) :
        ExitInUpdate(i) =>
            /\ IsPrefix(AfterEvent(i),
                        <<"upload", "render", "swapBuffers", "frameCount",
                          "destroy", "destroyWindow">>)
            /\ pc = "returned" => Len(AfterEvent(i)) = 6

\* exit() was called inside the second update(), and run() has returned after
\* two counted frames.
C4_Witness ==
    /\ pc = "returned"
    /\ frameCount = 2
    /\ ~window.shouldClose
    /\ \E i \in 1..Len(events) : ExitInUpdate(i) /\ Count(SubSeq(events, 1, i), "update") = 2

\* C5: at the loop condition a new iteration starts iff no exit was requested
\* and the window does not report close, and otherwise the shutdown starts;
\* once an exit is requested or the window reports close during run(), run()
\* gets to its end (the destroy() hook, the destruction of the Window, the
\* return) unless a fatal failure ends the process first.
C5_LoopUntilExitOrClose ==
    /\ [][(pc = "loop" /\ pc' # "loop") =>
             IF ~shouldExit /\ ~window.shouldClose
             THEN pc' = "pollEvents"
             ELSE pc' = "destroy"]_vars
    /\ ((pc \notin {"idle", "returned"} /\ (shouldExit \/ window.shouldClose))
           ~> ((pc = "returned" /\ window.terminated /\ Count(events, "destroy") = 1)
               \/ failure # NoFailure))

\* The window reported close, no exit was requested, and run() has returned.
C5_Witness ==
    /\ pc = "returned"
    /\ window.shouldClose /\ ~shouldExit
    /\ window.terminated
    /\ frameCount = 1

(***************************************************************************)
(* Claims about Surface (surface.cpp).                                     *)
(***************************************************************************)
\* The element of the pixel buffer for (x, y), row-major.
Stored(s, x, y) == VecAt(s.pixels, y * s.width + x)
InSurface(s, x, y) == 0 <= x /\ x < s.width /\ 0 <= y /\ y < s.height

\* C6: getPixel(x, y) made right after a successful setPixel(x, y, C) on the
\* same surface returns a Color equal to C.
C6_SetGetRoundTrip ==
    [][(/\ call.op = "setPixel" /\ failure = NoFailure
        /\ call'.op = "getPixel" /\ call'.tgt = call.tgt
        /\ call'.x = call.x /\ call'.y = call.y)
          => call'.ret = call.color]_vars

\* C7: src.blitTo(dst, dstX, dstY) raises nothing, leaves src as it was, and
\* afterwards every pixel of dst that is the destination of a source pixel
\* holds that source pixel's packed color, every other pixel of dst what it
\* held before.
C7_BlitCopiesExactly ==
    [][(call'.op = "blitTo" /\ nops' = nops + 1) =>
          /\ failure' = NoFailure
          /\ src' = src
          /\ dst'.width = dst.width /\ dst'.height = dst.height
          /\ dst'.pixels.len = dst.pixels.len
          /\ \A tx \in 0..(dst.width - 1), ty \in 0..(dst.height - 1) :
                Stored(dst', tx, ty) =
                    IF InSurface(src, tx - call'.x, ty - call'.y)
                    THEN Stored(src, tx - call'.x, ty - call'.y)
                    ELSE Stored(dst, tx, ty)]_vars

\* C8: setPixel(x, y, C) and getPixel(x, y) with (x, y) outside the surface
\* end with the bounds violation of that function, and the surface (its
\* pixel buffer too) is as it was before the call.
C8_OutOfBoundsFails ==
    [][(call'.op \in {"setPixel", "getPixel"} /\ call'.tgt = "dst" /\ failure = NoFailure
        /\ ~InSurface(dst, call'.x, call'.y))
          => /\ failure' = AssertFailure(IF call'.op = "setPixel"
                                         THEN "setPixel() out of bounds."
                                         ELSE "getPixel() out of bounds.")
             /\ dst' = dst
             /\ call'.ret = NoColor]_vars

\* setPixel at x = width has failed.
C8_Witness ==
    /\ call.op = "setPixel" /\ call.x = dst.width /\ call.y = 0
    /\ dst.live /\ dst.height = 2
    /\ failure = AssertFailure("setPixel() out of bounds.")

\* C9: Surface(w, h, C) with w <= 0 or h <= 0 ends with the assertion
\* "Surface dimensions must be positive." and no other failure, and there is
\* no surface afterwards.
C9_BadDimensionsAssert ==
    (call.op = "Surface" /\ (call.x <= 0 \/ call.y <= 0)) =>
        /\ failure = AssertFailure("Surface dimensions must be positive.")
        /\ ~dst.live

\* C10: Surface(w, h, C) with w > 0 and h > 0 succeeds and the surface has
\* width w, height h and w * h pixels, each the packed C.
C10_FreshSurfaceFilled ==
    (call.op = "Surface" /\ call.x > 0 /\ call.y > 0) =>
        /\ failure = NoFailure
        /\ dst.live
        /\ dst.width = call.x /\ dst.height = call.y
        /\ dst.pixels.len = call.x * call.y
        /\ \A i \in 0..(dst.pixels.len - 1) : VecAt(dst.pixels, i) = toUInt32(call.color)

\* A 2 x 1 surface of a color with four different channels was constructed.
C10_Witness ==
    /\ call = Call("Surface", "dst", 2, 1, ColorRGBA(10, 20, 30, 40), NoColor)
    /\ dst.live /\ dst.pixels.len = 2

\* C11: clear(C) raises nothing and leaves width, height and the number of
\* pixels as they were, and a getPixel(x, y) made right after it, for any
\* (x, y) inside the surface, returns a Color equal to C.
C11_ClearThenReadAll ==
    [][/\ (call'.op = "clear" /\ nops' = nops + 1) =>
             /\ failure' = NoFailure
             /\ dst'.width = dst.width /\ dst'.height = dst.height
             /\ dst'.pixels.len = dst.pixels.len
       /\ (/\ call.op = "clear" /\ call'.op = "getPixel"
           /\ InSurface(dst, call'.x, call'.y))
             => call'.ret = call.color]_vars

(***************************************************************************)
(* Claims about Graphics (graphics.cpp).                                   *)
(***************************************************************************)
\* This step is a call of upload(): the last call is an upload and no
\* Surface member was called.
IsUploadStep == gcall'.op = "upload" /\ UNCHANGED surfaceVars
\* The object a name of the pipeline stands for, after this step.
Held(name) == gl'.objects[name]

\* C12: the buffer index is 0 or 1 in every state, and every successful
\* upload(), whatever initialize, upload, render and resize calls came before,
\* writes the surface into the transfer buffer of an index that is 0 or 1 and
\* is not the index the previous successful upload used.
C12_UploadsAlternate ==
    /\ [](graphics.currentPBO \in {0, 1})
    /\ [][(IsUploadStep /\ failure' = NoFailure) =>
             /\ graphics'.currentPBO \in {0, 1}
             /\ graphics'.currentPBO # lastUpload
             /\ lastUpload' = graphics'.currentPBO
             /\ Held(graphics'.pbo[graphics'.currentPBO + 1]).data = gcall'.surf.pixels]_vars

\* A second upload has used buffer 0 after the first had used buffer 1, and
\* both buffers hold what was uploaded.
C12_Witness ==
    /\ gcall.op = "upload" /\ failure = NoFailure
    /\ lastUpload = 0
    /\ \A i \in 1..2 : IsLive(gl, graphics.pbo[i])
                       /\ gl.objects[graphics.pbo[i]].data.fill # NoColor

\* The data of transfer buffer i (0 or 1) of the pipeline.
BufferData(i) == gl.objects[graphics.pbo[i + 1]].data

\* C13: a render() that follows a completed upload(surface) shows the image
\* of the contents the surface had when it was uploaded, whatever was
\* uploaded before and whatever was done to the surface since; when the
\* other transfer buffer holds different contents (those of the upload
\* before), the image is not the image of those.
C13_RenderShowsLastUpload ==
    [][(/\ gcall.op = "upload" /\ failure = NoFailure
        /\ gcall'.op = "render" /\ UNCHANGED surfaceVars)
          => /\ failure' = NoFailure
             /\ gl'.screen = ScreenImage(gcall.surf.pixels, gcall.surf.width, gcall.surf.height)
             /\ LET before == BufferData(1 - graphics.currentPBO)
                IN before # gcall.surf.pixels =>
                      gl'.screen # ScreenImage(before, gcall.surf.width, gcall.surf.height)]_vars

\* The second of two uploads with different contents has been rendered: the
\* buffers hold the two contents and the image is that of the second.
C13_Witness ==
    /\ gcall.op = "render" /\ failure = NoFailure
    /\ lastUpload = 0
    /\ IsLive(gl, graphics.pbo[1]) /\ IsLive(gl, graphics.pbo[2])
    /\ BufferData(1).fill # NoColor
    /\ BufferData(0) # BufferData(1)
    /\ gl.screen = ScreenImage(BufferData(0), graphics.width, graphics.height)
    /\ graphics.height = 2

\* C14: upload(surface) with a surface whose width or height is not the
\* width or height the pipeline recorded ends with the violation "Surface
\* size mismatch." and leaves the buffer index, the transfer buffers, the
\* texture and all else of the pipeline and the context as it was.
C14_UploadSizeMismatch ==
    [][(/\ IsUploadStep
        /\ (gcall'.surf.width # graphics.width \/ gcall'.surf.height # graphics.height))
          => /\ failure' = AssertFailure("Surface size mismatch.")
             /\ graphics'.currentPBO = graphics.currentPBO
             /\ graphics' = graphics
             /\ gl' = gl
             /\ lastUpload' = lastUpload]_vars

\* After a successful upload, an upload of a surface of the same width and
\* another height has failed.
C14_Witness ==
    /\ gcall.op = "upload"
    /\ failure = AssertFailure("Surface size mismatch.")
    /\ gcall.surf.width = graphics.width /\ gcall.surf.height # graphics.height
    /\ lastUpload = 1
    /\ gl.objects[graphics.texture].data.fill # NoColor

\* The names of the GPU resources the pipeline g holds.
Resources(g) == {g.texture, g.pbo[1], g.pbo[2], g.vao, g.vbo, g.shaderProgram}
Live(c) == DOMAIN c.objects

\* C15: resize(surface) on an initialized pipeline, when it returns: with a
\* surface of the pipeline's size nothing is created, deleted or changed;
\* with a surface of another size each resource held is deleted, once, six
\* new resources are created, once, for the new size (texture width x height,
\* transfer buffers of width * height * 4 bytes), and they are what the
\* pipeline holds, so that a context in which the old set was all that was
\* live has the new set and nothing else live.
C15_ResizeReallocatesOnce ==
    [][(/\ gcall'.op = "resize" /\ UNCHANGED surfaceVars
        /\ graphics.texture # 0 /\ Resources(graphics) \subseteq Live(gl)
        /\ failure' = NoFailure)
          => IF gcall'.surf.width = graphics.width /\ gcall'.surf.height = graphics.height
             THEN graphics' = graphics /\ gl' = gl
             ELSE /\ Resources(graphics) \cap Live(gl') = {}
                  /\ gl'.stale = gl.stale
                  /\ gcall'.released = 6
                  /\ Cardinality(Resources(graphics')) = 6
                  /\ Resources(graphics') \cap Live(gl) = {}
                  /\ gl'.next = gl.next + NamesPerInitialize
                  /\ Live(gl') = (Live(gl) \ Resources(graphics)) \cup Resources(graphics')
                  /\ (Live(gl) = Resources(graphics) => Live(gl') = Resources(graphics'))
                  /\ graphics'.width = gcall'.surf.width
                  /\ graphics'.height = gcall'.surf.height
                  /\ Held(graphics'.texture).width = gcall'.surf.width
                  /\ Held(graphics'.texture).height = gcall'.surf.height
                  /\ \A i \in 1..2 : Held(graphics'.pbo[i]).size =
                        gcall'.surf.width * gcall'.surf.height * BytesPerPixel]_vars

\* A pipeline initialized for one surface has been resized to a surface of
\* another size: six resources deleted, and the six it holds are all that is live.
C15_Witness ==
    /\ gcall.op = "resize" /\ failure = NoFailure
    /\ gcall.released = 6 /\ gcall.created = NamesPerInitialize
    /\ Live(gl) = Resources(graphics)
    /\ Cardinality(Live(gl)) = 6
    /\ gl.stale = 0
    /\ graphics.width = gcall.surf.width /\ graphics.height = gcall.surf.height

\* This step is a call of destroy(), made directly or by the destructor.
IsDestroyStep == gcall'.op \in {"destroy", "~Graphics"} /\ UNCHANGED surfaceVars

\* C16: destroy(), also when the destructor makes the call, deletes each
\* resource the pipeline holds (texture, both transfer buffers, vertex array,
\* vertex buffer, program), once, and nothing else; after it the pipeline
\* holds nothing, so a further destroy() deletes nothing and leaves the
\* context as it is; and at no time is a name deleted that is not live.
C16_DestroyReleasesOnce ==
    /\ [](gl.stale = 0)
    /\ [][IsDestroyStep =>
             /\ failure' = NoFailure
             /\ Live(gl') = Live(gl) \ Resources(graphics)
             /\ gcall'.released = Cardinality(Resources(graphics) \ {0})
             /\ gcall'.created = 0
             /\ gl'.stale = gl.stale
             /\ Resources(graphics') = {0}
             /\ (Resources(graphics) = {0} => gl' = gl)]_vars

\* The destructor has run on an initialized pipeline that destroy() had been
\* called on before: it deleted nothing, nothing is live, nothing was deleted twice.
C16_Witness ==
    /\ gcall.op = "~Graphics" /\ ~graphics.exists
    /\ gcall.released = 0
    /\ gl.next = 1 + NamesPerInitialize
    /\ Live(gl) = {}
    /\ gl.stale = 0

(***************************************************************************)
(* Claims about the timing and the configuration of App (app.cpp).         *)
(***************************************************************************)
\* This step ends an iteration of the loop.
EndsIteration == frameCount' = frameCount + 1
\* The time and the frames accumulated since the last reset, this iteration
\* included.
Accumulated == fpsTimer + deltaTime
Frames == fpsCounter + 1
\* The frames since the last reset all took the time of this one.
FixedDelta == Accumulated = Frames * deltaTime

\* What C17 says of the recomputation: fps, the accumulated time and the
\* accumulated frames change only at the end of an iteration; there, with a
\* second or more accumulated, fps becomes accumulated frames / accumulated
\* time and both accumulators become zero, and with less fps stays and the
\* accumulators go on; fps is 0 as long as no recomputation was made.
FpsOverWindow ==
    /\ [](fpsCounter = frameCount => fps.num = 0)
    /\ [][IF EndsIteration
          THEN IF Accumulated >= TicksPerSecond
               THEN /\ SameNumber(fps', Quotient(Frames * TicksPerSecond, Accumulated))
                    /\ fpsTimer' = 0 /\ fpsCounter' = 0
               ELSE /\ fps' = fps
                    /\ fpsTimer' = Accumulated /\ fpsCounter' = Frames
          ELSE UNCHANGED <<fps, fpsTimer, fpsCounter>>]_vars

\* C17 as stated: the recomputation as above, and after N frames of one fixed
\* delta T the value recomputed is not 1 / T.
C17_FpsNotInverseOfDelta ==
    /\ FpsOverWindow
    /\ [][(EndsIteration /\ Accumulated >= TicksPerSecond /\ FixedDelta)
             => ~SameNumber(fps', Quotient(TicksPerSecond, deltaTime))]_vars

\* C17, amended: the recomputation as above; after N frames of one fixed
\* delta T the value recomputed, frames / accumulated time, is the number 1 / T.
C17_FpsOverWindow ==
    /\ FpsOverWindow
    /\ [][(EndsIteration /\ Accumulated >= TicksPerSecond /\ FixedDelta)
             => SameNumber(fps', Quotient(TicksPerSecond, deltaTime))]_vars

\* Two frames of half a second each: fps was recomputed at the end of the
\* second, as 2 frames / 1 second, and the accumulators are zero again.
C17_Witness ==
    /\ pc = "loop" /\ frameCount = 2
    /\ deltaTime = 500
    /\ fps = Quotient(2 * TicksPerSecond, TicksPerSecond)
    /\ fpsTimer = 0 /\ fpsCounter = 0

\* C18: the frame counter is 0 until the first iteration ends, changes only
\* at the end of an iteration, there by exactly +1; so getFrameCount() is
\* k - 1 all through the k-th update() and, once run() has returned, the
\* number of update() invocations.
C18_FrameCounterMonotonic ==
    /\ [](Count(events, "update") = 0 => getFrameCount = 0)
    /\ [](pc = "update" => getFrameCount = Count(events, "update") - 1)
    /\ [](pc = "returned" => getFrameCount = Count(events, "update"))
    /\ [][IF pc = "count" /\ pc' = "loop"
          THEN frameCount' = frameCount + 1
          ELSE frameCount' = frameCount]_vars

\* Inside the second update(), the counter reads 1.
C18_Witness ==
    /\ pc = "update"
    /\ Count(events, "update") = 2
    /\ getFrameCount = 1

\* C19: the step of run() that creates the surface creates it at the logical
\* width by height; the step that creates the window creates it at the logical
\* width and height times the pixel scale, with the title and the vsync flag
\* of the configuration; the configuration is changed only by a setter called
\* inside setup(), so these are the values last set there (or the defaults);
\* and whenever update() runs, getWindowWidth() = getWidth() * getPixelSize()
\* and getWindowHeight() = getHeight() * getPixelSize().
C19_WindowAndSurfaceSize ==
    [][/\ (pc = "construct" /\ pc' = "createWindow") =>
             surface'.live /\ surface'.width = width /\ surface'.height = height
       /\ (pc = "createWindow" /\ pc' = "initialize") =>
             /\ window'.handle
             /\ window'.width = width * pixelSize
             /\ window'.height = height * pixelSize
             /\ window'.title = title
             /\ window'.vsyncEnabled = vsyncEnabled
       /\ configVars' # configVars => pc = "setup" /\ api'.op \in Setters
       /\ pc' = "update" =>
             /\ getWindowWidth' = getWidth' * getPixelSize'
             /\ getWindowHeight' = getHeight' * getPixelSize'
      ]_vars
\* update() runs in a window of 4 by 2 on a surface of 2 by 1 at scale 2.
C19_Witness ==
    /\ pc = "update"
    /\ getWidth = 2 /\ getHeight = 1 /\ getPixelSize = 2
    /\ getWindowWidth = 4 /\ getWindowHeight = 2
\* update() runs with the configuration nobody changed.
C19_Defaults ==
    /\ pc = "update" /\ nuser = 0
    /\ getWidth = 400 /\ getHeight = 400 /\ getPixelSize = 1
    /\ window.title = "Pixel Runtime" /\ window.vsyncEnabled

IsQuotient(q, a, b) ==
    /\ b >= 1
    /\ \E r \in 0..(b - 1) : a = IF a >= 0 THEN q * b + r ELSE q * b - r
\* All four mouse queries return 0.
MouseQueriesZero ==
    getMouseX = 0 /\ getMouseY = 0 /\ getMouseWindowX = 0 /\ getMouseWindowY = 0

AfterOneFrame ==
    /\ failure = NoFailure
    /\ frameCount = 1 /\ pc = "loop"
    /\ surface.width = 4 /\ surface.height = 4
    /\ api.op = "drawPixel" /\ api.args[3] # backgroundColor

\* C22: after one iteration on a surface of 4 by 4 with the default
\* background, in whose update() the pixel (0, 0) was drawn in another color,
\* getPixel(0, 0) returns that color and getPixel of each of the other 15
\* pixels returns the background color.
C22_EndToEnd ==
    AfterOneFrame =>
        \A x \in 0..3, y \in 0..3 :
            SurfaceGetPixel(surface, x, y).ret =
                IF x = 0 /\ y = 0 THEN api.args[3] ELSE backgroundColor

\* C23: no step is taken after a failure, and the step in which a contract
\* is violated reports it to the error callback if one is set and to
\* standard error otherwise, ends the process by std::exit(EXIT_FAILURE)
\* without DEBUG and by std::abort() with it, and leaves the surfaces as they
\* were before the violating call.
C23_ViolationsReportedOnce ==
    [][/\ failure = NoFailure
       /\ failure' # NoFailure =>
             /\ failure'.sink = IF errorCallback THEN "callback" ELSE "stderr"
             /\ \A debug \in BOOLEAN :
                   Termination(failure', debug) =
                       IF debug THEN "std::abort()" ELSE "std::exit(EXIT_FAILURE)"
             /\ src' = src /\ dst' = dst
      ]_vars

\* C24: when something is thrown inside update() of an iteration, that
\* iteration has made no upload, render or swapBuffers and has not counted
\* its frame, the catch clause of the entry point writes the error to
\* standard error and main returns EXIT_FAILURE; and no step follows a
\* failure, so no later iteration runs and nothing is reported twice.
C24_ExceptionInUpdate ==
    [][/\ failure = NoFailure
       /\ (pc = "update" /\ failure'.kind \in {"exception", "terminate"}) =>
             /\ Count(events', "update") = frameCount' + 1
             /\ Count(events', "upload") = frameCount'
             /\ Count(events', "render") = frameCount'
             /\ Count(events', "swapBuffers") = frameCount'
             /\ frameCount' = frameCount
             /\ failure'.sink = "stderr"
             /\ \A debug \in BOOLEAN : Termination(failure', debug) = "return EXIT_FAILURE"
      ]_vars

(***************************************************************************)
(* Claims about the sizes and the lifetime of the surface and the pipeline.*)
(***************************************************************************)
\* This step is a call of the member op of Graphics.
IsCallOf(ops) == gcall'.op \in ops /\ UNCHANGED surfaceVars
\* The pipeline g records w by h, its texture is allocated at w by h and each
\* of its two transfer buffers has w * h * 4 bytes.
SizedFor(g, c, w, h) ==
    /\ g.width = w /\ g.height = h
    /\ IsLive(c, g.texture)
    /\ c.objects[g.texture].width = w /\ c.objects[g.texture].height = h
    /\ \A i \in 1..2 : IsLive(c, g.pbo[i]) /\ c.objects[g.pbo[i]].size = w * h * 4

\* The pipeline is as its public members leave it: new, or holding a texture
\* (destroy(), a private member, leaves it with a size and no texture when it
\* is called by itself).
AsPublicCallsLeaveIt(g, c) ==
    \/ g.texture = 0 /\ g.width = 0 /\ g.height = 0
    \/ IsLive(c, g.texture)

\* C25: after initialize(s) or resize(s) the pipeline's width and height, the
\* texture's dimensions and the size of both transfer buffers are those of s;
\* no other call changes the recorded width and height, and as long as the
\* pipeline holds a texture they stay in agreement; a successful upload
\* copies width * height * 4 bytes, which is the size of the mapped buffer
\* and the size of the surface's buffer.
C25_ResourcesSizedForSurface ==
    [][/\ (IsCallOf({"initialize", "resize"}) /\ AsPublicCallsLeaveIt(graphics, gl)) =>
             SizedFor(graphics', gl', gcall'.surf.width, gcall'.surf.height)
       /\ gcall'.op \notin {"initialize", "resize", "~Graphics"} =>
             graphics'.width = graphics.width /\ graphics'.height = graphics.height
       /\ IsLive(gl', graphics'.texture) =>
             SizedFor(graphics', gl', graphics'.width, graphics'.height)
       /\ failure'.kind # "undefined"
       /\ (IsCallOf({"upload"}) /\ failure' = NoFailure) =>
             /\ MemcpyBytes(graphics') = gl.objects[graphics'.pbo[graphics'.currentPBO + 1]].size
             /\ MemcpyBytes(graphics') = gcall'.surf.pixels.len * 4
      ]_vars
\* A surface of 1 by 2 was uploaded to a pipeline that was initialised for
\* another size and then resized.
C25_Witness ==
    /\ gcall.op = "upload" /\ failure = NoFailure
    /\ gcall.surf.width = 1 /\ gcall.surf.height = 2
    /\ gl.next > 1 + NamesPerInitialize
    /\ SizedFor(graphics, gl, 1, 2)

\* run() is inside its loop or past it.
Running == pc \notin {"idle", "setup", "construct", "createWindow", "initialize"}

\* C26: the App's surface comes to exist in the step of run() that follows
\* setup() and the pipeline's resources in the initialisation before the
\* loop; from then on no step of the loop and no call user code makes
\* replaces, resizes or destroys the surface, changes the resources the
\* pipeline holds or their size, or creates or deletes a GPU object: the
\* context holds the one set the pipeline holds, sized for the surface; so
\* at every upload the sizes agree and the upload does not fail with a size
\* mismatch.
C26_OneSurfaceOnePipeline ==
    [][/\ surface'.live # surface.live => pc = "construct" /\ surface'.live
       /\ surface.live =>
             surface'.width = surface.width /\ surface'.height = surface.height
       /\ Resources(graphics') # Resources(graphics) => pc = "initialize"
       /\ Running =>
             /\ Resources(graphics') = Resources(graphics)
             /\ graphics'.width = graphics.width /\ graphics'.height = graphics.height
             /\ Live(gl') = Live(gl) /\ gl'.next = gl.next
       /\ Running' =>
             /\ surface'.live
             /\ Live(gl') = Resources(graphics')
             /\ SizedFor(graphics', gl', surface'.width, surface'.height)
       /\ pc = "upload" =>
             /\ SizeMatches(graphics, surface)
             /\ failure' # AssertFailure("Surface size mismatch.")
      ]_vars
\* The second iteration has uploaded a surface drawn on in update().
C26_Witness ==
    /\ pc = "render" /\ frameCount = 1
    /\ api.op = "drawPixel"
    /\ gcall.op = "upload" /\ gcall.surf = surface
    /\ Live(gl) = Resources(graphics)

\* The buffer of s has width * height elements.
HasItsLength(s) ==
    s.live => /\ s.pixels.len = s.width * s.height
              /\ DOMAIN s.pixels.over \subseteq 0..(s.pixels.len - 1)
\* This step is a successful call of op on the surface t.
Called(op, t) ==
    call'.op = op /\ call'.tgt = t /\ nops' = nops + 1 /\ failure' = NoFailure

\* C27: after every construction, setPixel, clear, blitTo, move construction
\* and move assignment each surface, the one moved from included, has a
\* buffer of width * height elements; a successful setPixel(x, y, C) writes
\* the element at index y * width + x and no other, and a successful
\* getPixel(x, y) reads the element at that index.
C27_RowMajorBuffer ==
    [][/\ HasItsLength(src') /\ HasItsLength(dst')
       /\ \A t \in {"src", "dst"} :
             LET s == SurfaceOf(t)
                 after == IF t = "src" THEN src' ELSE dst'
                 at == call'.y * s.width + call'.x
             IN /\ Called("setPixel", t) =>
                      \A i \in 0..(s.pixels.len - 1) :
                          VecAt(after.pixels, i) =
                              IF i = at THEN toUInt32(call'.color) ELSE VecAt(s.pixels, i)
                /\ Called("getPixel", t) =>
                      call'.ret = ColorFromUInt32(VecAt(s.pixels, at))
      ]_vars
\* src was moved from and dst, of 2 by 2, received its buffer and was then
\* written at (1, 1).
C27_Witness ==
    /\ src.live /\ src.width = 0 /\ src.height = 0 /\ src.pixels.len = 0
    /\ dst.width = 2 /\ dst.height = 2 /\ dst.pixels.len = 4
    /\ call.op = "setPixel" /\ call.x = 1 /\ call.y = 1 /\ failure = NoFailure
    /\ VecAt(dst.pixels, 3) = toUInt32(call.color)

\* C28: isInSetupPhase() returns true at every point where setup() is
\* executing and false everywhere else: before run(), at every step of run()
\* after setup() has returned, in update(), in the destroy() hook and after
\* run() has returned.
C28_InSetupExactlyInSetup == isInSetupPhase <=> pc = "setup"
\* update() runs, after setup() ran once, and the flag is down.
C28_Witness ==
    /\ pc = "update" /\ Count(events, "setup") = 1 /\ ~isInSetupPhase

(***************************************************************************)
(* Claims about what upload() and render() change and show.                *)
(***************************************************************************)
\* The contents of the texture the pipeline holds, if it holds one.
TextureData(g, c) == IF IsLive(c, g.texture) THEN c.objects[g.texture].data ELSE NoImage

\* C29: a successful upload() leaves both surfaces as they were; a call of a
\* Surface member (setPixel, clear, blitTo) changes nothing of the pipeline
\* or the context, so what a render() would show stays the same until the
\* next upload(); and render() changes no object of the context (texture and
\* transfer buffers included) and nothing of the pipeline, the buffer index
\* included: only the image shown.
C29_TextureChangesOnlyInUpload ==
    [][/\ (gcall'.op = "upload" /\ graphics'.currentPBO # graphics.currentPBO) =>
             src' = src /\ dst' = dst
       /\ (src' # src \/ dst' # dst) =>
             /\ graphics' = graphics /\ gl' = gl
             /\ TextureData(graphics', gl') = TextureData(graphics, gl)
       /\ IsCallOf({"render"}) =>
             /\ gl'.objects = gl.objects
             /\ graphics' = graphics
             /\ TextureData(graphics', gl') = TextureData(graphics, gl)
             /\ IsLive(gl, graphics.vao) /\ TextureData(graphics, gl).fill # NoColor =>
                   gl'.screen = ScreenImage(TextureData(graphics, gl),
                                            graphics.width, graphics.height)
      ]_vars
\* src was uploaded black, then cleared to another color, then render() was
\* called: the texture and the image are still the black ones.
C29_Witness ==
    /\ gcall.op = "render" /\ failure = NoFailure
    /\ src.live /\ src.pixels.fill = toUInt32(ColorRGBA(10, 20, 30, 40))
    /\ TextureData(graphics, gl) = VecFill(src.pixels.len, toUInt32(ColorBlack))
    /\ gl.screen = ScreenImage(TextureData(graphics, gl), src.width, src.height)

\* C30: a render() that follows a successful upload(surface) presents, at
\* column x and row y counted from the top of the image (which has as many
\* cells as the surface, the quad covering the viewport), the texel made of
\* the surface's pixel (x, y): row 0 of the surface is the top row and its
\* pixel (0, 0) the top-left cell.
C30_TopLeftOrigin ==
    [][(/\ gcall.op = "upload" /\ failure = NoFailure
        /\ IsCallOf({"render"}))
          => LET s == gcall.surf
             IN /\ gl'.screen.len = s.width * s.height
                /\ \A x \in 0..(s.width - 1), y \in 0..(s.height - 1) :
                      VecAt(gl'.screen, y * s.width + x) =
                          Texel(VecAt(s.pixels, y * s.width + x))]_vars
\* A surface of 2 by 2 whose pixel (0, 0) alone has another color was
\* uploaded and rendered: the top-left cell alone has the other texel.
C30_Witness ==
    /\ gcall.op = "render" /\ failure = NoFailure
    /\ gl.screen.len = 4
    /\ DOMAIN gl.screen.over = {0}
    /\ gl.screen.over[0] = Texel(toUInt32(ColorRGBA(10, 20, 30, 40)))
    /\ gl.screen.fill = Texel(toUInt32(ColorBlack))

\* C31: render(pixelSize) does not depend on its argument: whatever value a
\* render step was called with, the pipeline, the context (bound texture's
\* image on the screen included) and the failure it leaves are those that
\* render(m) leaves from the same state for every other value m, the driver
\* showing the same for texels never uploaded.
C31_RenderIgnoresPixelSize ==
    [][IsCallOf({"render"})
          => \E junk \in Junk : \A m \in PixelSizes :
                GOut(failure', graphics', gl') = GraphicsRender(graphics, gl, m, junk)]_vars
\* render(MaxDim) has drawn an uploaded image that was not on the screen.
C31_Witness ==
    /\ gcall.op = "render" /\ gcall.pixelSize = MaxDim /\ failure = NoFailure
    /\ lastUpload # -1
    /\ gl.screen.len > 0 /\ gl.screen.fill # NoColor

(***************************************************************************)
(* Claims about the end of the App object, the channels and the mouse.     *)
(***************************************************************************)
\* The events that are calls of OpenGL or of the window's context.
GPUEvents == {"initializeGraphics", "upload", "render", "swapBuffers", "~Graphics: glDelete"}

\* C32: no event that is a GPU operation comes after the event of the
\* window's destruction (glfwDestroyWindow and glfwTerminate), over the run
\* and the destruction of the App object.
C32_NoGPUAfterWindow ==
    \A i, j \in 1..Len(events) :
        (i < j /\ events[i] = "destroyWindow") => events[j] \notin GPUEvents

\* C33: the texel presented for a pixel has the channels of the Color that was
\* written: a render() that follows a successful upload(surface) shows, in
\* every cell, red, green, blue and alpha equal to r(), g(), b() and a() of
\* the Color stored at that place of the surface.
C33_ChannelsPreserved ==
    [][(/\ gcall.op = "upload" /\ failure = NoFailure
        /\ IsCallOf({"render"}))
          => LET s == gcall.surf
             IN \A i \in 0..(s.width * s.height - 1) :
                   LET color == VecAt(s.pixels, i)
                   IN VecAt(gl'.screen, i) =
                          <<ColorR(color), ColorG(color), ColorB(color), ColorA(color)>>]_vars

\* C34: s.blitTo(s, dx, dy) raises nothing and leaves s as a blit from a copy
\* of s taken before the call leaves it: every destination pixel inside s
\* holds what blitTo copies from the source pixel as it was before the call.
C34_SelfBlitAsFromCopy ==
    [][(call'.op = "blitTo" /\ call'.tgt = "src" /\ nops' = nops + 1) =>
          /\ failure' = NoFailure
          /\ src' = SurfaceBlitTo(src, src, call'.x, call'.y).surface]_vars

\* C35: a read-only query of App called before run() or inside setup() reads
\* no Window, Surface or Input object, none being created yet: it takes its
\* value from App's own members and raises nothing.
C35_QueriesBeforeConstruction ==
    [][(api'.op \in Queries /\ nuser' = nuser + 1 /\ pc \in {"idle", "setup"}) =>
          /\ api'.args = <<"App">>
          /\ failure' = NoFailure]_vars

\* C36: whenever the window coordinate of the mouse polled last is negative,
\* left of the window for x and above it for y, the surface coordinate that
\* getMouseX() or getMouseY() returns is outside the surface, not in
\* [0, width) or [0, height), for every pixel scale of at least 1.
C36_NegativeRawOutsideSurface ==
    (HasInput /\ pixelSize >= 1) =>
        /\ getMouseWindowX < 0 => getMouseX \notin 0..(getWidth - 1)
        /\ getMouseWindowY < 0 => getMouseY \notin 0..(getHeight - 1)

(***************************************************************************)
(* Claims about exit() in setup(), the surface between frames and the      *)
(* drawing calls in setup().                                               *)
(***************************************************************************)
\* An exit() was called inside setup(): after the setup event and before the
\* creation of the surface.
ExitInSetup ==
    \E i \in 1..Len(events) :
        /\ events[i] = "exit"
        /\ Count(SubSeq(events, 1, i), "setup") = 1
        /\ Count(SubSeq(events, 1, i), "createSurface") = 0
LoopEvents == {"pollEvents", "inputPoll", "update", "upload", "render", "swapBuffers", "frameCount"}

\* C37: after an exit() made inside setup(), run() enters no loop iteration:
\* no update(), upload, render or presentation happens and the frame counter
\* stays 0; what run() does is the creation of the Surface, the Window and
\* the pipeline, then the destroy() hook and the destruction of the Window,
\* each once, and a run() that has returned has done all of them.
C37_ExitInSetup ==
    ExitInSetup =>
        /\ \A i \in 1..Len(events) : events[i] \notin LoopEvents
        /\ getFrameCount = 0
        /\ IsPrefix(SelectSeq(events, IsNotExit), WholeRun(0))
        /\ pc = "returned" =>
              /\ SelectSeq(events, IsNotExit) = WholeRun(0)
              /\ window.exists /\ window.terminated
              /\ surface.live
              /\ graphics.exists /\ graphics.texture # 0
\* exit() was called inside setup() and run() has returned.
C37_Witness ==
    /\ ExitInSetup
    /\ pc = "returned"
    /\ Count(events, "destroy") = 1 /\ Count(events, "destroyWindow") = 1

\* C38: once the surface exists, a step of run() that is not a call made by
\* user code (poll, upload, render, presentation, counting, the loop
\* condition, the entry and return of update(), the shutdown) leaves the
\* surface, every pixel of it, as it was: what update() wrote in one frame
\* is there when update() is entered in the next.
C38_RuntimeLeavesSurface ==
    [][(surface.live /\ nuser' = nuser) => surface' = surface]_vars
\* update() is about to be entered for the second frame and the pixel
\* written in the first frame, alone of another color, still holds it.
C38_Witness ==
    /\ pc = "callUpdate" /\ frameCount = 1
    /\ surface.live
    /\ surface.pixels.fill = toUInt32(ColorBlack)
    /\ VecAt(surface.pixels, 0) = toUInt32(ColorRGBA(10, 20, 30, 40))

\* The step is the call op of user code, made while pc is at.
IsUserCall(op, at) == api'.op = op /\ nuser' = nuser + 1 /\ pc = at
\* Every pixel of surface s holds color c.
AllPixels(s, c) == s.live /\ s.pixels = VecFill(s.width * s.height, toUInt32(c))

\* C39: background(C) inside setup() raises nothing, touches no surface and
\* makes C the background color, which nothing but background() changes and
\* which every pixel of the surface holds when update() is first entered;
\* background(C) inside update() raises nothing and leaves every pixel of the
\* surface holding C; drawPixel and drawSurface inside setup() raise nothing
\* and change neither the surface (there is none) nor the background color.
C39_DrawingInSetupAndUpdate ==
    /\ [][IsUserCall("background", "setup") =>
              /\ failure' = NoFailure
              /\ backgroundColor' = api'.args[1]
              /\ surface' = surface /\ ~surface.live]_vars
    /\ [][backgroundColor' # backgroundColor => api'.op = "background" /\ nuser' = nuser + 1]_vars
    /\ [][(pc = "callUpdate" /\ pc' = "update" /\ frameCount = 0) =>
              /\ AllPixels(surface', backgroundColor)
              /\ surface'.width = width /\ surface'.height = height]_vars
    /\ [][IsUserCall("background", "update") =>
              /\ failure' = NoFailure
              /\ AllPixels(surface', api'.args[1])
              /\ surface'.width = surface.width /\ surface'.height = surface.height]_vars
    /\ [][(IsUserCall("drawPixel", "setup") \/ IsUserCall("drawSurface", "setup")) =>
              /\ failure' = NoFailure
              /\ surface' = surface /\ ~surface.live
              /\ backgroundColor' = backgroundColor]_vars
\* update() is about to be entered for the first time after a setup() that
\* called background(Color::Red) and then drawPixel: every pixel is red.
C39_Witness ==
    /\ pc = "callUpdate" /\ frameCount = 0
    /\ nuser = 2 /\ api.op = "drawPixel"
    /\ backgroundColor = ColorRed
    /\ AllPixels(surface, ColorRed)

====
